---- MODULE Spec2Model ----
(***************************************************************************)
(* A model of ReportEngine/renderers/markdown_renderer.py: MarkdownRenderer *)
(* turns a Document IR (chapters, typed blocks, inline runs) into Markdown. *)
(*                                                                         *)
(* Text is a sequence of one-character strings.  A Python value is a record *)
(* tagged by its kind in field k: [k |-> "none"], [k |-> "str", s |-> text],*)
(* [k |-> "int", n |-> i], [k |-> "list", items |-> seq], and mappings with *)
(* k = "dict" and the keys they carry.                                      *)
(***************************************************************************)
EXTENDS Integers, Sequences, FiniteSets, TLC

VARIABLES
    etext, eonce, etwice, epc,      \* _escape_text applied once and twice
    irun, itable, iresult, imi, ipc, \* _render_inline_run: the run, for_table, result, mark index
    wblock, wentries, wpos, witems, wseen, wpc, \* _collect_wordcloud_items
    tblock, theader, tqueue, tbody, tlines, tpc, \* _render_table: header_cells, rows left, body_rows, lines
    bblock, bout, bpc,              \* _render_block: the block, what the call gave, the branch taken
    selfDocument, selfMetadata,     \* the fields of the one MarkdownRenderer instance
    rarg, rparts, rqueue, rlogs, rret, rpc, \* render, per call: document_ir, parts, chapters left,
                                    \* logger.debug calls made, what the call gave, the line it is at
    cblock, cdata, cret, cpc,       \* _render_chart_as_table: the block, data, what the call gave
    lsink                           \* what a call of logger.debug does: "ok" or "raises"

escVars == <<etext, eonce, etwice, epc>>
inlVars == <<irun, itable, iresult, imi, ipc>>
wcVars == <<wblock, wentries, wpos, witems, wseen, wpc>>
tblVars == <<tblock, theader, tqueue, tbody, tlines, tpc>>
blkVars == <<bblock, bout, bpc>>
rndVars == <<selfDocument, selfMetadata, rarg, rparts, rqueue, rlogs, rret, rpc>>
chtVars == <<cblock, cdata, cret, cpc>>
envVars == <<lsink>>
vars == <<escVars, inlVars, wcVars, tblVars, blkVars, rndVars, chtVars, envVars>>

\* ------------------------------------------------------------------ bounds
MaxTextLen == 3
MaxMarks == 2
MaxEntries == 3
MaxRows == 3
MaxChapters == 2

\* ------------------------------------------------------- program constants
\* the length the JSON preview of an unsupported widget is cut at
PreviewLimit == 200

\* ------------------------------------------------------------ Python values
None == [k |-> "none"]
PyStr(s) == [k |-> "str", s |-> s]
PyInt(n) == [k |-> "int", n |-> n]
PyList(items) == [k |-> "list", items |-> items]
PyBool(b) == [k |-> "bool", b |-> b]

\* a key the mapping does not carry
Absent == [k |-> "absent"]
\* the mapping d with key set to v, or d itself when v is Absent
With(d, key, v) == IF v = Absent THEN d ELSE d @@ (key :> v)
Dict == [k |-> "dict"]

\* d.get(key) on a mapping
Get(d, key) == IF key \in DOMAIN d THEN d[key] ELSE None
\* d.get(key, default)
GetOr(d, key, default) == IF key \in DOMAIN d THEN d[key] ELSE default

RECURSIVE SeqsUpTo(_, _)
\* every sequence over S of length at most n
SeqsUpTo(S, n) ==
    IF n = 0 THEN {<<>>}
    ELSE LET shorter == SeqsUpTo(S, n - 1)
         IN shorter \cup {Append(s, c) : s \in {t \in shorter : Len(t) = n - 1}, c \in S}

\* ------------------------------------------------------------------- text
\* the grave accent that opens and closes inline code and code fences
Backtick == "BACKTICK"

Whitespace == {" ", "\n", "\r", "\t"}

RECURSIVE LStrip(_)
LStrip(s) == IF s # <<>> /\ Head(s) \in Whitespace THEN LStrip(Tail(s)) ELSE s

RECURSIVE RStrip(_)
RStrip(s) ==
    IF s # <<>> /\ s[Len(s)] \in Whitespace THEN RStrip(SubSeq(s, 1, Len(s) - 1)) ELSE s

\* str.strip()
Strip(s) == RStrip(LStrip(s))

RECURSIVE ReplaceChar(_, _, _)
\* str.replace(old, new) for a one-character old and a text new
ReplaceChar(s, old, new) ==
    IF s = <<>> THEN <<>>
    ELSE (IF Head(s) = old THEN new ELSE <<Head(s)>>) \o ReplaceChar(Tail(s), old, new)

Digit(d) == <<"0", "1", "2", "3", "4", "5", "6", "7", "8", "9">>[d + 1]

RECURSIVE Decimal(_)
Decimal(n) == IF n < 10 THEN <<Digit(n)>> ELSE Decimal(n \div 10) \o <<Digit(n % 10)>>

RECURSIVE PyRepr(_)

\* str(v)
PyStrOf(v) ==
    CASE v.k = "str" -> v.s
      [] v.k = "int" -> IF v.n < 0 THEN <<"-">> \o Decimal(-v.n) ELSE Decimal(v.n)
      [] OTHER -> PyRepr(v)

\* _escape_text(text, for_table)
EscapeText(text, for_table) ==
    IF text.k = "none" THEN <<>>
    ELSE LET value == PyStrOf(text)
             tabled == ReplaceChar(ReplaceChar(ReplaceChar(value, "|", <<"\\", "|">>),
                                               "\n", <<" ">>), "\r", <<" ">>)
         IN Strip(IF for_table THEN tabled ELSE value)

\* ------------------------------------------------------ idle components
\* Each specification below exercises one part of the renderer; the variables
\* of the other parts rest at these values.
EscIdle ==
    /\ etext = None
    /\ eonce = <<>>
    /\ etwice = <<>>
    /\ epc = "idle"

InlIdle ==
    /\ irun = None
    /\ itable = FALSE
    /\ iresult = <<>>
    /\ imi = 0
    /\ ipc = "idle"

WcIdle ==
    /\ wblock = None
    /\ wentries = <<>>
    /\ wpos = 0
    /\ witems = <<>>
    /\ wseen = {}
    /\ wpc = "idle"

TblIdle ==
    /\ tblock = None
    /\ theader = <<>>
    /\ tqueue = <<>>
    /\ tbody = <<>>
    /\ tlines = <<>>
    /\ tpc = "idle"

BlkIdle ==
    /\ bblock = None
    /\ bout = None
    /\ bpc = "idle"

ChtIdle ==
    /\ cblock = None
    /\ cdata = None
    /\ cret = None
    /\ cpc = "idle"

\* the calls of render that may run against the one instance
Threads == {1, 2}

\* the instance as __init__ leaves it, no call of render under way
RndIdle ==
    /\ selfDocument = Dict
    /\ selfMetadata = Dict
    /\ rarg = [t \in Threads |-> None]
    /\ rparts = [t \in Threads |-> <<>>]
    /\ rqueue = [t \in Threads |-> <<>>]
    /\ rlogs = [t \in Threads |-> 0]
    /\ rret = [t \in Threads |-> None]
    /\ rpc = [t \in Threads |-> "idle"]

IdleExcept(part) ==
    /\ IF part = "esc" THEN TRUE ELSE EscIdle
    /\ IF part = "inl" THEN TRUE ELSE InlIdle
    /\ IF part = "wc" THEN TRUE ELSE WcIdle
    /\ IF part = "tbl" THEN TRUE ELSE TblIdle
    /\ IF part = "blk" THEN TRUE ELSE BlkIdle
    /\ IF part = "rnd" THEN TRUE ELSE RndIdle
    /\ IF part = "cht" THEN TRUE ELSE ChtIdle
    /\ IF part \in {"blk", "rnd"} THEN TRUE ELSE lsink = "ok"

notEsc == <<inlVars, wcVars, tblVars, blkVars, rndVars, chtVars, envVars>>
notInl == <<escVars, wcVars, tblVars, blkVars, rndVars, chtVars, envVars>>
notWc == <<escVars, inlVars, tblVars, blkVars, rndVars, chtVars, envVars>>
notTbl == <<escVars, inlVars, wcVars, blkVars, rndVars, chtVars, envVars>>
notBlk == <<escVars, inlVars, wcVars, tblVars, rndVars, chtVars>>
notRnd == <<escVars, inlVars, wcVars, tblVars, blkVars, chtVars>>
notCht == <<escVars, inlVars, wcVars, tblVars, blkVars, rndVars, envVars>>

\* ------------------------------------------------- escaping applied twice
EscapeAlphabet == {"a", "|", "\\", " ", "\n"}
EscapeInputs == {None} \cup {PyStr(s) : s \in SeqsUpTo(EscapeAlphabet, MaxTextLen)}

EscInit ==
    /\ etext \in EscapeInputs
    /\ eonce = <<>>
    /\ etwice = <<>>
    /\ epc = "start"
    /\ IdleExcept("esc")

\* first round: _escape_text(s, for_table=True)
EscapeFirst ==
    /\ epc = "start"
    /\ eonce' = EscapeText(etext, TRUE)
    /\ epc' = "once"
    /\ UNCHANGED <<etext, etwice, notEsc>>

\* second round on the first round's result
EscapeSecond ==
    /\ epc = "once"
    /\ etwice' = EscapeText(PyStr(eonce), TRUE)
    /\ epc' = "twice"
    /\ UNCHANGED <<etext, eonce, notEsc>>

EscNext == EscapeFirst \/ EscapeSecond

SpecEscape == EscInit /\ [][EscNext]_vars

\* C8: escaping in table-safe mode twice gives the same text as escaping once.
C8_IdempotentEscaping == epc = "twice" => etwice = eonce

\* ------------------------------------------------------------ inline runs
\* _normalize_math(raw): trim, then drop one pair of display delimiters
StartsWith(s, p) == Len(s) >= Len(p) /\ SubSeq(s, 1, Len(p)) = p
EndsWith(s, p) == Len(s) >= Len(p) /\ SubSeq(s, Len(s) - Len(p) + 1, Len(s)) = p
Enclosed(s, start, end) == StartsWith(s, start) /\ EndsWith(s, end)
Unwrapped(s, start, end) == Strip(SubSeq(s, Len(start) + 1, Len(s) - Len(end)))

NormalizeMath(raw) ==
    IF raw.k # "str" THEN <<>>
    ELSE LET text == Strip(raw.s)
         IN IF Enclosed(text, <<"$", "$">>, <<"$", "$">>)
                THEN Unwrapped(text, <<"$", "$">>, <<"$", "$">>)
            ELSE IF Enclosed(text, <<"\\", "[">>, <<"\\", "]">>)
                THEN Unwrapped(text, <<"\\", "[">>, <<"\\", "]">>)
            ELSE IF Enclosed(text, <<"\\", "(">>, <<"\\", ")">>)
                THEN Unwrapped(text, <<"\\", "(">>, <<"\\", ")">>)
            ELSE text

\* Python truthiness of the values the model carries
Truthy(v) ==
    CASE v.k = "none" -> FALSE
      [] v.k = "str" -> v.s # <<>>
      [] v.k = "int" -> v.n # 0
      [] v.k = "bool" -> v.b
      [] v.k = "list" -> v.items # <<>>
      [] v.k = "dict" -> DOMAIN v # {"k"}
      [] OTHER -> TRUE

\* a or b
PyOr(a, b) == IF Truthy(a) THEN a ELSE b

Mark(type, href, value) == [k |-> "dict", type |-> type, href |-> href, value |-> value]
Run(text, marks) == [k |-> "dict", text |-> text, marks |-> PyList(marks)]

\* run.get("text", "") / the run itself when it is a string / ""
RunText(run) ==
    IF run.k = "dict" THEN GetOr(run, "text", PyStr(<<>>))
    ELSE IF run.k = "str" THEN run ELSE PyStr(<<>>)

\* run.get("marks") or [] / []
RunMarks(run) ==
    IF run.k = "dict" /\ Truthy(Get(run, "marks")) THEN Get(run, "marks").items ELSE <<>>

\* the mark the loop visits at its i-th iteration, were the marks walked backwards
MarkAtReversed(marks, i) == marks[Len(marks) + 1 - i]

\* for mark in marks: the mark the loop visits at its i-th iteration
MarkAt(marks, i) == marks[i]

\* one iteration of the loop over marks: the if/elif chain on mark["type"]
ApplyMark(mark, result, text) ==
    IF mark.k # "dict" THEN result
    ELSE CASE mark.type = "bold" -> <<"*", "*">> \o result \o <<"*", "*">>
           [] mark.type = "italic" -> <<"*">> \o result \o <<"*">>
           [] mark.type = "underline" -> <<"_", "_">> \o result \o <<"_", "_">>
           [] mark.type = "strike" -> <<"~", "~">> \o result \o <<"~", "~">>
           [] mark.type = "code" -> <<Backtick>> \o result \o <<Backtick>>
           [] mark.type = "link" ->
                LET href == PyOr(mark.href, mark.value)
                    shown == IF Truthy(href) THEN PyStrOf(href) ELSE <<>>
                IN IF shown # <<>>
                   THEN <<"[">> \o result \o <<"]", "(">> \o shown \o <<")">>
                   ELSE result
           [] mark.type = "highlight" -> <<"=", "=">> \o result \o <<"=", "=">>
           [] mark.type = "subscript" -> <<"~">> \o result \o <<"~">>
           [] mark.type = "superscript" -> <<"^">> \o result \o <<"^">>
           [] mark.type = "math" ->
                LET latex == NormalizeMath(PyOr(mark.value, text))
                IN IF latex # <<>> THEN <<"$">> \o latex \o <<"$">> ELSE result
           [] OTHER -> result

WrapTypes == {"bold", "italic", "underline", "strike", "code",
              "highlight", "subscript", "superscript"}
MarkInputs ==
    {Mark(t, None, None) : t \in WrapTypes \cup {"link", "math", "color"}}
    \cup {Mark("link", PyStr(<<"u">>), None), Mark("link", None, PyStr(<<"v">>)),
          Mark("math", None, PyStr(<<"y">>)), Mark("math", None, PyStr(<<"$", "$", "$", "$">>)),
          PyStr(<<"b">>)}
RunTexts == {None, PyStr(<<>>), PyStr(<<"x">>), PyStr(<<" ", "|">>)}
RunInputs ==
    {Run(t, m) : t \in RunTexts, m \in SeqsUpTo(MarkInputs, MaxMarks)}
    \cup {PyStr(<<"x">>), PyStr(<<" ", "|">>), None}

InlInit ==
    /\ irun \in RunInputs
    /\ itable \in BOOLEAN
    /\ iresult = <<>>
    /\ imi = 0
    /\ ipc = "start"
    /\ IdleExcept("inl")

\* result = self._escape_text(text, for_table=for_table)
InlineEscape ==
    /\ ipc = "start"
    /\ iresult' = EscapeText(RunText(irun), itable)
    /\ imi' = 1
    /\ ipc' = "marks"
    /\ UNCHANGED <<irun, itable, notInl>>

\* one iteration of: for mark in marks
InlineMark ==
    /\ ipc = "marks"
    /\ imi <= Len(RunMarks(irun))
    /\ iresult' = ApplyMark(MarkAt(RunMarks(irun), imi), iresult, RunText(irun))
    /\ imi' = imi + 1
    /\ UNCHANGED <<irun, itable, ipc, notInl>>

\* return result
InlineReturn ==
    /\ ipc = "marks"
    /\ imi > Len(RunMarks(irun))
    /\ ipc' = "done"
    /\ UNCHANGED <<irun, itable, iresult, imi, notInl>>

InlNext == InlineEscape \/ InlineMark \/ InlineReturn

SpecInline == InlInit /\ [][InlNext]_vars

\* The syntax a mark puts before and after what it wraps.
MarkOpen(type) ==
    CASE type = "bold" -> <<"*", "*">>
      [] type = "italic" -> <<"*">>
      [] type = "underline" -> <<"_", "_">>
      [] type = "strike" -> <<"~", "~">>
      [] type = "code" -> <<Backtick>>
      [] type = "highlight" -> <<"=", "=">>
      [] type = "subscript" -> <<"~">>
      [] type = "superscript" -> <<"^">>
      [] type = "math" -> <<"$">>
      [] type = "link" -> <<"[">>
      [] OTHER -> <<>>
LinkTarget(mark) ==
    IF Truthy(mark.href) THEN mark.href.s
    ELSE IF Truthy(mark.value) THEN mark.value.s ELSE <<>>
MarkClose(mark) ==
    IF mark.type = "link" THEN <<"]", "(">> \o LinkTarget(mark) \o <<")">>
    ELSE MarkOpen(mark.type)
IsMath(mark) == mark.k = "dict" /\ mark.type = "math"
MathText(mark, run) == NormalizeMath(PyOr(mark.value, RunText(run)))
\* a recognized mark that has something to put around the text (a link needs a
\* target, a math mark a formula)
Wraps(mark, run) ==
    /\ mark.k = "dict"
    /\ mark.type \in WrapTypes \cup {"link", "math"}
    /\ mark.type = "link" => LinkTarget(mark) # <<>>
    /\ mark.type = "math" => MathText(mark, run) # <<>>

RECURSIVE WrappedBy(_, _, _)
\* inner wrapped by every mark of marks, the first innermost, the last outermost
WrappedBy(marks, run, inner) ==
    IF marks = <<>> THEN inner
    ELSE LET last == marks[Len(marks)]
             rest == WrappedBy(SubSeq(marks, 1, Len(marks) - 1), run, inner)
         IN IF Wraps(last, run) THEN MarkOpen(last.type) \o rest \o MarkClose(last) ELSE rest

RECURSIVE FoldedRun(_, _, _)
\* as WrappedBy, but a math mark whose latex is not empty replaces what the
\* marks before it built by $latex$, and one whose latex is empty changes nothing
FoldedRun(marks, run, inner) ==
    IF marks = <<>> THEN inner
    ELSE LET last == marks[Len(marks)]
             rest == FoldedRun(SubSeq(marks, 1, Len(marks) - 1), run, inner)
         IN IF IsMath(last)
            THEN IF MathText(last, run) # <<>>
                 THEN <<"$">> \o MathText(last, run) \o <<"$">> ELSE rest
            ELSE IF Wraps(last, run) THEN MarkOpen(last.type) \o rest \o MarkClose(last) ELSE rest

\* C7 as stated: the run renders as its escaped text wrapped by every recognized
\* mark in array order, the first mark innermost and the last outermost.
C7_EveryMarkWraps ==
    ipc = "done" => iresult = WrappedBy(RunMarks(irun), irun, EscapeText(RunText(irun), itable))

\* C7 amended: the run renders as the left fold over its marks in array order
\* from the escaped text, where every recognized mark but math wraps the current
\* result (a link only when it has a target) and a math mark replaces the
\* current result by $latex$ (or leaves it when the latex is empty).
C7_MarkFold ==
    ipc = "done" => iresult = FoldedRun(RunMarks(irun), irun, EscapeText(RunText(irun), itable))

\* marks [bold, italic] on "x" came out as *, then **x**, then *
C7_Witness ==
    /\ ipc = "done"
    /\ irun.k = "dict"
    /\ RunMarks(irun) = <<Mark("bold", None, None), Mark("italic", None, None)>>
    /\ irun.text = PyStr(<<"x">>)
    /\ iresult = <<"*", "*", "*", "x", "*", "*", "*">>

\* ------------------------------------------------------------ word clouds
WcDict(word, text, label, weight, value, category) ==
    [k |-> "dict", word |-> word, text |-> text, label |-> label,
     weight |-> weight, value |-> value, category |-> category]
WcProps(data, words, items) == [k |-> "dict", data |-> data, words |-> words, items |-> items]
WcData(items) == [k |-> "dict", items |-> items]
WcBlock(props, data) == [k |-> "dict", props |-> props, data |-> data]

\* the candidate containers in the order the code visits them:
\* props["data"], props["words"], props["items"], then data or data["items"]
Candidates(block) ==
    LET props == PyOr(Get(block, "props"), [k |-> "dict"])
        data == Get(block, "data")
        take(v) == IF v.k = "list" THEN <<v.items>> ELSE <<>>
        fromData == IF data.k = "list" THEN <<data.items>>
                    ELSE IF data.k = "dict" THEN take(Get(data, "items"))
                    ELSE <<>>
    IN take(Get(props, "data")) \o take(Get(props, "words")) \o take(Get(props, "items"))
       \o fromData

RECURSIVE Flatten(_)
\* for candidate in candidates: for entry in candidate
Flatten(lists) == IF lists = <<>> THEN <<>> ELSE Head(lists) \o Flatten(Tail(lists))

\* entry.get("word") or entry.get("text") or entry.get("label")
EntryWord(entry) == PyOr(PyOr(Get(entry, "word"), Get(entry, "text")), Get(entry, "label"))

\* whether the loop body calls push for the entry
Pushes(entry) ==
    CASE entry.k = "dict" -> Truthy(EntryWord(entry))
      [] entry.k = "list" -> entry.items # <<>>
      [] entry.k = "str" -> TRUE
      [] OTHER -> FALSE

\* the arguments (word, weight, category) the loop body gives to push
PushArgs(entry) ==
    CASE entry.k = "dict" ->
            [word |-> PyStrOf(EntryWord(entry)),
             weight |-> PyOr(Get(entry, "weight"), Get(entry, "value")),
             category |-> PyStrOf(PyOr(Get(entry, "category"), PyStr(<<>>)))]
      [] entry.k = "list" ->
            [word |-> PyStrOf(entry.items[1]),
             weight |-> IF Len(entry.items) > 1 THEN entry.items[2] ELSE PyStr(<<>>),
             category |-> PyStrOf(IF Len(entry.items) > 2 THEN entry.items[3] ELSE PyStr(<<>>))]
      [] OTHER -> [word |-> entry.s, weight |-> PyStr(<<>>), category |-> <<>>]

\* a key that keeps the two parts apart
PairKey(word, category) == <<word, category>>

\* key = f"{word}::{category}"
SeenKey(word, category) == word \o <<":", ":">> \o category

WcEntryInputs ==
    { WcDict(PyStr(<<"a">>), None, None, PyInt(1), None, None),
      WcDict(PyStr(<<"a">>), None, None, None, PyInt(2), None),
      WcDict(PyStr(<<"a">>), None, None, PyInt(1), None, PyStr(<<":">>)),
      WcDict(PyStr(<<"a", ":">>), None, None, PyInt(2), None, None),
      WcDict(None, PyStr(<<"b">>), None, None, None, PyStr(<<"c">>)),
      WcDict(None, None, None, PyInt(1), None, None),
      PyList(<<PyStr(<<"a">>), PyInt(2)>>),
      PyList(<<PyStr(<<"b">>), PyInt(1), PyStr(<<":">>)>>),
      PyList(<<>>),
      PyStr(<<"a", ":">>),
      PyInt(7) }
WcBlockInputs ==
    { WcBlock(props, data) :
        props \in {None} \cup {WcProps(None, PyList(l), None) : l \in SeqsUpTo(WcEntryInputs, 1)}
                  \cup {WcProps(PyList(<<PyStr(<<"b">>)>>), None, PyList(<<PyInt(7)>>))},
        data \in {None} \cup {PyList(l) : l \in SeqsUpTo(WcEntryInputs, MaxEntries - 1)}
                 \cup {WcData(PyList(l)) : l \in SeqsUpTo(WcEntryInputs, 1)}
                 \cup {WcData(None)} }

WcInit ==
    /\ wblock \in WcBlockInputs
    /\ wentries = <<>>
    /\ wpos = 0
    /\ witems = <<>>
    /\ wseen = {}
    /\ wpc = "start"
    /\ IdleExcept("wc")

\* lines 522-536: gather the candidate containers, items = [], seen = set()
WcCollect ==
    /\ wpc = "start"
    /\ wentries' = Flatten(Candidates(wblock))
    /\ wpos' = 1
    /\ wpc' = "loop"
    /\ UNCHANGED <<wblock, witems, wseen, notWc>>

\* one iteration of the loops over the entries, when it calls push
WcPush ==
    /\ wpc = "loop"
    /\ wpos <= Len(wentries)
    /\ Pushes(wentries[wpos])
    /\ LET a == PushArgs(wentries[wpos])
           key == SeenKey(a.word, a.category)
       IN IF key \in wseen
          THEN UNCHANGED <<witems, wseen>>
          ELSE /\ wseen' = wseen \cup {key}
               /\ witems' = Append(witems, a)
    /\ wpos' = wpos + 1
    /\ UNCHANGED <<wblock, wentries, wpc, notWc>>

\* one iteration of the loops over the entries, when it skips the entry
WcSkip ==
    /\ wpc = "loop"
    /\ wpos <= Len(wentries)
    /\ ~Pushes(wentries[wpos])
    /\ wpos' = wpos + 1
    /\ UNCHANGED <<wblock, wentries, witems, wseen, wpc, notWc>>

\* return items
WcReturn ==
    /\ wpc = "loop"
    /\ wpos > Len(wentries)
    /\ wpc' = "done"
    /\ UNCHANGED <<wblock, wentries, wpos, witems, wseen, notWc>>

WcNext == WcCollect \/ WcPush \/ WcSkip \/ WcReturn

SpecWordcloud == WcInit /\ [][WcNext]_vars

\* the entries of the candidate containers that carry a word, as (word, weight, category)
Found(block) ==
    LET all == Flatten(Candidates(block))
        F[i \in 0..Len(all)] ==
            IF i = 0 THEN <<>>
            ELSE IF Pushes(all[i]) THEN Append(F[i - 1], PushArgs(all[i])) ELSE F[i - 1]
    IN F[Len(all)]

\* the first occurrence of every (word, category) pair of found, in order
FirstOfEachPair(found) ==
    LET F[i \in 0..Len(found)] ==
            IF i = 0 THEN <<>>
            ELSE IF \E j \in 1..(i - 1) :
                        PairKey(found[j].word, found[j].category)
                            = PairKey(found[i].word, found[i].category)
                 THEN F[i - 1] ELSE Append(F[i - 1], found[i])
    IN F[Len(found)]

\* C10: the items returned hold exactly one item for each distinct (word,
\* category) pair of the candidate containers, in order of first occurrence and
\* with the first occurrence's weight; entries whose pairs differ are not collapsed.
C10_DedupByPair == wpc = "done" => witems = FirstOfEachPair(Found(wblock))

\* ------------------------------------------------------- results of a call
\* A call either returns a text or raises; logs counts the calls it made to
\* logger.debug.
Ok(t, n) == [exc |-> FALSE, text |-> t, logs |-> n]
Raised(n) == [exc |-> TRUE, text |-> <<>>, logs |-> n]

\* for x in (v or []): the items visited, or not ok when v cannot be iterated.
\* Mappings do not stand where a sequence is expected in the inputs of this model.
Iter(v) ==
    CASE ~Truthy(v) -> [ok |-> TRUE, items |-> <<>>]
      [] v.k = "list" -> [ok |-> TRUE, items |-> v.items]
      [] v.k = "str" -> [ok |-> TRUE, items |-> [i \in 1..Len(v.s) |-> PyStr(<<v.s[i]>>)]]
      [] v.k \in {"int", "bool"} -> [ok |-> FALSE, items |-> <<>>]

RECURSIVE Join(_, _)
\* sep.join(parts)
Join(parts, sep) ==
    IF parts = <<>> THEN <<>>
    ELSE IF Len(parts) = 1 THEN parts[1]
    ELSE parts[1] \o sep \o Join(Tail(parts), sep)

\* filter(None, texts)
NonEmpty(texts) == SelectSeq(texts, LAMBDA t : t # <<>>)

RECURSIVE SplitLines(_)
\* str.splitlines()
SplitLines(s) ==
    IF s = <<>> THEN <<>>
    ELSE IF \E i \in 1..Len(s) : s[i] = "\n"
         THEN LET i == CHOOSE j \in 1..Len(s) : s[j] = "\n" /\ \A h \in 1..(j - 1) : s[h] # "\n"
              IN <<SubSeq(s, 1, i - 1)>> \o SplitLines(SubSeq(s, i + 1, Len(s)))
         ELSE <<s>>

\* "| " + " | ".join(cells) + " |"
MarkdownRow(cells) == <<"|", " ">> \o Join(cells, <<" ", "|", " ">>) \o <<" ", "|">>

\* "| " + " | ".join(["---"] * max(1, count)) + " |"
MarkdownSeparator(count) ==
    MarkdownRow([i \in 1..(IF count > 1 THEN count ELSE 1) |-> <<"-", "-", "-">>])

\* _render_inline_run as one call
RECURSIVE InlineFold(_, _, _)
InlineFold(run, i, result) ==
    IF i > Len(RunMarks(run)) THEN result
    ELSE InlineFold(run, i + 1, ApplyMark(MarkAt(RunMarks(run), i), result, RunText(run)))
RenderInlineRun(run, for_table) == InlineFold(run, 1, EscapeText(RunText(run), for_table))

\* _render_inlines
RenderInlines(inlines, for_table) ==
    IF ~Iter(inlines).ok THEN Raised(0)
    ELSE LET runs == Iter(inlines).items
         IN Ok(Join([i \in 1..Len(runs) |-> RenderInlineRun(runs[i], for_table)], <<>>), 0)

\* ------------------------------------------------- serialising a mapping
\* The keys a mapping of the model may carry, in the order they were inserted.
KeyOrder ==
    <<"type", "title", "chapterId", "text", "level", "subtitle", "listType", "items",
      "inlines", "marks", "rows", "cells", "header", "isHeader", "colspan", "blocks",
      "lang", "content", "latex", "caption", "tone", "summary",
      "strengths", "weaknesses", "opportunities", "threats",
      "political", "economic", "social", "technological",
      "label", "value", "unit", "delta", "deltaTone", "widgetType", "props", "data",
      "labels", "datasets", "detail", "description", "impact", "priority", "evidence",
      "weight", "word", "category", "href", "foo", "metadata", "query", "chapters">>
KeysOf(d) == SelectSeq(KeyOrder, LAMBDA key : key \in DOMAIN d)

\* what json.dumps and repr put for the characters they escape inside a string
Escaped(s) ==
    ReplaceChar(ReplaceChar(s, "\\", <<"\\", "\\">>), "\n", <<"\\", "n">>)

RECURSIVE Spaces(_)
Spaces(n) == IF n <= 0 THEN <<>> ELSE <<" ">> \o Spaces(n - 1)

RECURSIVE JsonDumps(_, _)
\* json.dumps(v, ensure_ascii=False, indent=2), v nested depth levels deep
JsonDumps(v, depth) ==
    LET inner == <<"\n">> \o Spaces(2 * (depth + 1))
        outer == <<"\n">> \o Spaces(2 * depth)
    IN CASE v.k = "none" -> <<"n", "u", "l", "l">>
         [] v.k = "bool" -> IF v.b THEN <<"t", "r", "u", "e">> ELSE <<"f", "a", "l", "s", "e">>
         [] v.k = "int" -> PyStrOf(v)
         [] v.k = "str" -> <<"\"">> \o ReplaceChar(Escaped(v.s), "\"", <<"\\", "\"">>) \o <<"\"">>
         [] v.k = "list" ->
              IF v.items = <<>> THEN <<"[", "]">>
              ELSE <<"[">> \o inner
                   \o Join([i \in 1..Len(v.items) |-> JsonDumps(v.items[i], depth + 1)],
                           <<",">> \o inner)
                   \o outer \o <<"]">>
         [] v.k = "dict" ->
              IF KeysOf(v) = <<>> THEN <<"{", "}">>
              ELSE <<"{">> \o inner
                   \o Join([i \in 1..Len(KeysOf(v)) |->
                              <<"\"", KeysOf(v)[i], "\"", ":", " ">>
                              \o JsonDumps(v[KeysOf(v)[i]], depth + 1)],
                           <<",">> \o inner)
                   \o outer \o <<"}">>

\* repr(v): what str gives for None, a boolean, a list or a mapping
PyRepr(v) ==
    CASE v.k = "none" -> <<"N", "o", "n", "e">>
      [] v.k = "bool" -> IF v.b THEN <<"T", "r", "u", "e">> ELSE <<"F", "a", "l", "s", "e">>
      [] v.k = "int" -> PyStrOf(v)
      [] v.k = "str" -> <<"'">> \o Escaped(v.s) \o <<"'">>
      [] v.k = "list" ->
           <<"[">> \o Join([i \in 1..Len(v.items) |-> PyRepr(v.items[i])], <<",", " ">>) \o <<"]">>
      [] v.k = "dict" ->
           <<"{">> \o Join([i \in 1..Len(KeysOf(v)) |->
                              <<"'", KeysOf(v)[i], "'", ":", " ">> \o PyRepr(v[KeysOf(v)[i]])],
                           <<",", " ">>)
           \o <<"}">>

\* ---------------------------------------------------- table-cell flattening
\* a type discriminant, kept as one token of text
TypeStr(name) == PyStr(<<name>>)
\* the label a widget without title gets inside a table cell
ChartLabel == <<"chart">>

RECURSIVE RenderBlocksAsText(_)
RECURSIVE RenderBlockAsText(_)
RECURSIVE RenderItemsAsText(_)

\* _render_blocks_as_text
RenderBlocksAsText(blocks) ==
    IF ~Iter(blocks).ok THEN Raised(0)
    ELSE LET items == Iter(blocks).items
             each == [i \in 1..Len(items) |-> RenderBlockAsText(items[i])]
         IN IF \E i \in 1..Len(items) : each[i].exc THEN Raised(0)
            ELSE Ok(Join(NonEmpty([i \in 1..Len(items) |-> each[i].text]), <<" ">>), 0)

\* the list branch of _render_block_as_text
RenderItemsAsText(items) ==
    IF ~Iter(items).ok THEN Raised(0)
    ELSE LET subs == Iter(items).items
             each == [i \in 1..Len(subs) |-> RenderBlocksAsText(subs[i])]
         IN IF \E i \in 1..Len(subs) : each[i].exc THEN Raised(0)
            ELSE Ok(Join(NonEmpty([i \in 1..Len(subs) |-> each[i].text]), <<";", " ">>), 0)

\* _render_block_as_text
RenderBlockAsText(block) ==
    IF block.k = "str" THEN Ok(EscapeText(block, TRUE), 0)
    ELSE IF block.k # "dict" THEN Ok(<<>>, 0)
    ELSE LET type == Get(block, "type")
         IN CASE type = TypeStr("paragraph") ->
                    RenderInlines(GetOr(block, "inlines", PyList(<<>>)), TRUE)
              [] type = TypeStr("heading") ->
                    Ok(EscapeText(PyOr(Get(block, "text"), PyStr(<<>>)), TRUE), 0)
              [] type = TypeStr("list") -> RenderItemsAsText(Get(block, "items"))
              [] type = TypeStr("math") ->
                    Ok(<<"$">> \o NormalizeMath(GetOr(block, "latex", PyStr(<<>>))) \o <<"$">>, 0)
              [] type = TypeStr("code") ->
                    LET content == PyOr(GetOr(block, "content", PyStr(<<>>)), PyStr(<<>>))
                    IN IF content.k = "str" THEN Ok(content.s, 0) ELSE Raised(0)
              [] type = TypeStr("widget") ->
                    Ok(EscapeText(PyOr(Get(block, "title"), PyStr(ChartLabel)), TRUE), 0)
              [] OTHER ->
                    IF Get(block, "blocks").k = "list"
                    THEN RenderBlocksAsText(Get(block, "blocks"))
                    ELSE Ok(EscapeText(PyStr(PyRepr(block)), TRUE), 0)

\* _render_cell_content
RenderCellContent(cell) ==
    RenderBlocksAsText(IF cell.k = "dict" THEN Get(cell, "blocks") ELSE None)

\* ------------------------------------------------------------------ tables
\* int(v): a number, or a failure for what int() refuses
IntOf(v) ==
    CASE v.k = "int" -> [ok |-> TRUE, n |-> v.n]
      [] v.k = "bool" -> [ok |-> TRUE, n |-> IF v.b THEN 1 ELSE 0]
      [] OTHER -> [ok |-> FALSE, n |-> 0]

\* int(cell.get("colspan") or 1); cell.get fails on what is not a mapping
CellSpan(cell) ==
    IF cell.k # "dict" THEN [ok |-> FALSE, n |-> 0]
    ELSE IntOf(PyOr(Get(cell, "colspan"), PyInt(1)))

\* rows[0].get("cells") if isinstance(rows[0], dict) else None
RowCells(row) == IF row.k = "dict" THEN Get(row, "cells") ELSE None

RECURSIVE AnyHeader(_)
\* any(cell.get("header") or cell.get("isHeader") for cell in cells), stopping
\* at the first header cell: "yes", "no" or "raise"
AnyHeader(cells) ==
    IF cells = <<>> THEN "no"
    ELSE IF Head(cells).k # "dict" THEN "raise"
    ELSE IF Truthy(PyOr(Get(Head(cells), "header"), Get(Head(cells), "isHeader"))) THEN "yes"
    ELSE AnyHeader(Tail(cells))

\* has_header, line 144
HasHeader(rows) ==
    LET first == RowCells(rows[1])
    IN IF ~Truthy(first) THEN "no"
       ELSE IF ~Iter(first).ok THEN "raise"
       ELSE AnyHeader(Iter(first).items)

RECURSIVE SpanSum(_)
\* lines 150-152: span summed over the cells of one row
SpanSum(cells) ==
    IF cells = <<>> THEN [ok |-> TRUE, n |-> 0]
    ELSE LET one == CellSpan(Head(cells))
             rest == SpanSum(Tail(cells))
         IN IF one.ok /\ rest.ok THEN [ok |-> TRUE, n |-> one.n + rest.n]
            ELSE [ok |-> FALSE, n |-> 0]

RowSpan(row) ==
    IF ~Iter(RowCells(row)).ok THEN [ok |-> FALSE, n |-> 0]
    ELSE SpanSum(Iter(RowCells(row)).items)

Max(a, b) == IF a >= b THEN a ELSE b

RECURSIVE ColCount(_)
\* lines 147-153: col_count, the largest span sum of a row
ColCount(rows) ==
    IF rows = <<>> THEN [ok |-> TRUE, n |-> 0]
    ELSE LET one == RowSpan(Head(rows))
             rest == ColCount(Tail(rows))
         IN IF one.ok /\ rest.ok THEN [ok |-> TRUE, n |-> Max(one.n, rest.n)]
            ELSE [ok |-> FALSE, n |-> 0]

\* the word the synthetic headers start with
ColumnWord == "Col"

\* the width the else branch of line 159 gives the synthetic header
SyntheticWidth(rows, col_count) ==
    LET first == RowCells(rows[1])
        n == IF Truthy(first) /\ first.k = "list" THEN Len(first.items) ELSE 0
    IN IF col_count # 0 THEN col_count ELSE IF n # 0 THEN n ELSE 1

\* lines 155-159 once has_header, col_count and the texts of the first row's
\* cells are known
HeaderFrom(rows, has, count, each) ==
    IF has = "raise" \/ ~count.ok THEN [ok |-> FALSE, cells |-> <<>>]
    ELSE IF has = "yes"
    THEN IF \E i \in 1..Len(each) : each[i].exc THEN [ok |-> FALSE, cells |-> <<>>]
         ELSE [ok |-> TRUE, cells |-> [i \in 1..Len(each) |-> each[i].text]]
    ELSE [ok |-> TRUE,
          cells |-> [i \in 1..SyntheticWidth(rows, count.n) |-> <<ColumnWord>> \o Decimal(i)]]

\* lines 155-159: header_cells, or a failure
HeaderCells(rows) ==
    HeaderFrom(rows, HasHeader(rows), ColCount(rows),
               [i \in 1..Len(Iter(RowCells(rows[1])).items) |->
                  RenderCellContent(Iter(RowCells(rows[1])).items[i])])

\* rows = rows[1:] when the first row is the header
BodyInput(rows) == IF HasHeader(rows) = "yes" THEN Tail(rows) ELSE rows

\* lines 167-171 for one cell: its text, then span - 1 empty cells, ahead of
\* what the cells after it gave
ExpandCell(text, span, rest) ==
    IF text.exc \/ ~span.ok \/ ~rest.ok THEN [ok |-> FALSE, cells |-> <<>>]
    ELSE [ok |-> TRUE,
          cells |-> <<text.text>> \o [i \in 1..(span.n - 1) |-> <<>>] \o rest.cells]

RECURSIVE Expanded(_)
\* lines 166-171: each cell's text followed by span - 1 empty cells
Expanded(cells) ==
    IF cells = <<>> THEN [ok |-> TRUE, cells |-> <<>>]
    ELSE ExpandCell(RenderCellContent(Head(cells)), CellSpan(Head(cells)),
                    Expanded(Tail(cells)))

\* lines 172-174 without the cut: only the padding of a short row
PaddedOnly(row_cells, width) ==
    row_cells \o [i \in 1..(width - Len(row_cells)) |-> <<>>]

\* lines 172-174: pad a short row with empty cells, cut a long one
PadTruncate(row_cells, width) ==
    SubSeq(row_cells \o [i \in 1..(width - Len(row_cells)) |-> <<>>], 1, width)

\* lines 172-174 on the expanded cells of one row
Padded(exp, width) ==
    IF ~exp.ok THEN [ok |-> FALSE, cells |-> <<>>]
    ELSE [ok |-> TRUE, cells |-> PadTruncate(exp.cells, width)]

\* lines 164-174 for one mapping row
BodyRow(row, width) ==
    IF ~Iter(PyOr(Get(row, "cells"), PyList(<<>>))).ok THEN [ok |-> FALSE, cells |-> <<>>]
    ELSE Padded(Expanded(Iter(PyOr(Get(row, "cells"), PyList(<<>>))).items), width)

\* line 175: body_rows.append(row_cells)
AppendRow(one, rest) ==
    IF one.ok /\ rest.ok THEN [ok |-> TRUE, rows |-> <<one.cells>> \o rest.rows]
    ELSE [ok |-> FALSE, rows |-> <<>>]

RECURSIVE BodyRows(_, _)
\* lines 161-175: body_rows, or a failure; line 163 skips a row that is no mapping
BodyRows(rows, width) ==
    IF rows = <<>> THEN [ok |-> TRUE, rows |-> <<>>]
    ELSE IF Head(rows).k # "dict" THEN BodyRows(Tail(rows), width)
    ELSE AppendRow(BodyRow(Head(rows), width), BodyRows(Tail(rows), width))

\* lines 176-182: the lines of the table
TableLines(header, body) ==
    <<MarkdownRow(header), MarkdownSeparator(Len(header))>>
    \o [i \in 1..Len(body) |-> MarkdownRow(body[i])]

\* lines 176-182 on the header and the body rows
TableText(header, body) ==
    IF ~body.ok THEN Raised(0)
    ELSE Ok(Join(TableLines(header, body.rows), <<"\n">>), 0)

\* lines 161-182 on the rows and their header
TableBelow(all, header) ==
    IF ~header.ok THEN Raised(0)
    ELSE TableText(header.cells, BodyRows(BodyInput(all), Len(header.cells)))

\* _render_table as one call
RenderTable(block) ==
    LET rows == PyOr(Get(block, "rows"), PyList(<<>>))
    IN IF ~Truthy(rows) THEN Ok(<<>>, 0)
       ELSE IF ~Iter(rows).ok THEN Raised(0)
       ELSE TableBelow(Iter(rows).items, HeaderCells(Iter(rows).items))

\* _render_table, statement by statement
Blocks(items) == PyList(items)
CellA == [k |-> "dict", blocks |-> Blocks(<<PyStr(<<"a">>)>>)]
CellEmpty == [k |-> "dict"]
CellH == [k |-> "dict", header |-> PyBool(TRUE), blocks |-> Blocks(<<PyStr(<<"h">>)>>)]
CellH2 == [k |-> "dict", isHeader |-> PyBool(TRUE), colspan |-> PyInt(2),
           blocks |-> Blocks(<<PyStr(<<"h">>)>>)]
CellS2 == [k |-> "dict", colspan |-> PyInt(2), blocks |-> Blocks(<<PyStr(<<"s", "|">>)>>)]
CellCode == [k |-> "dict",
             blocks |-> Blocks(<<[k |-> "dict", type |-> TypeStr("code"),
                                  content |-> PyStr(<<"c", "|", "d">>)]>>)]
CellBadBlocks == [k |-> "dict", blocks |-> PyInt(5)]
CellNotMapping == PyStr(<<"x">>)
TableRow(cells) == [k |-> "dict", cells |-> PyList(cells)]
TableRowInputs ==
    { TableRow(<<CellH, CellH>>), TableRow(<<CellH2, CellA>>), TableRow(<<CellA>>),
      TableRow(<<CellA, CellEmpty, CellA>>), TableRow(<<CellS2, CellA>>),
      TableRow(<<CellCode, CellA>>), TableRow(<<>>), [k |-> "dict"],
      PyStr(<<"r">>), TableRow(<<CellA, CellNotMapping>>), TableRow(<<CellBadBlocks>>) }
TableBlock(rows) == [k |-> "dict", type |-> TypeStr("table"), rows |-> rows]
TableInputs ==
    {TableBlock(PyList(r)) : r \in SeqsUpTo(TableRowInputs, MaxRows)}
    \cup {TableBlock(None), [k |-> "dict", type |-> TypeStr("table")]}

\* the rows of the block, as line 135 reads them
TableRows(block) == Iter(PyOr(Get(block, "rows"), PyList(<<>>))).items

TblInit ==
    /\ tblock \in TableInputs
    /\ theader = <<>>
    /\ tqueue = <<>>
    /\ tbody = <<>>
    /\ tlines = <<>>
    /\ tpc = "start"
    /\ IdleExcept("tbl")

\* lines 135-137: no rows, return ""
TblEmpty ==
    /\ tpc = "start"
    /\ TableRows(tblock) = <<>>
    /\ tpc' = "done"
    /\ UNCHANGED <<tblock, theader, tqueue, tbody, tlines, notTbl>>

\* lines 139-159: header detection, column count, header cells
TblHeader ==
    /\ tpc = "start"
    /\ TableRows(tblock) # <<>>
    /\ HeaderCells(TableRows(tblock)).ok
    /\ theader' = HeaderCells(TableRows(tblock)).cells
    /\ tqueue' = BodyInput(TableRows(tblock))
    /\ tpc' = "rows"
    /\ UNCHANGED <<tblock, tbody, tlines, notTbl>>

\* lines 139-159 when a cell is no mapping or its content cannot be rendered
TblHeaderRaises ==
    /\ tpc = "start"
    /\ TableRows(tblock) # <<>>
    /\ ~HeaderCells(TableRows(tblock)).ok
    /\ tpc' = "raised"
    /\ UNCHANGED <<tblock, theader, tqueue, tbody, tlines, notTbl>>

\* lines 162-163: a row that is no mapping is passed over
TblRowSkip ==
    /\ tpc = "rows"
    /\ tqueue # <<>>
    /\ Head(tqueue).k # "dict"
    /\ tqueue' = Tail(tqueue)
    /\ UNCHANGED <<tblock, theader, tbody, tlines, tpc, notTbl>>

\* lines 164-174: one body row
TblRow ==
    /\ tpc = "rows"
    /\ tqueue # <<>>
    /\ Head(tqueue).k = "dict"
    /\ BodyRow(Head(tqueue), Len(theader)).ok
    /\ tbody' = Append(tbody, BodyRow(Head(tqueue), Len(theader)).cells)
    /\ tqueue' = Tail(tqueue)
    /\ UNCHANGED <<tblock, theader, tlines, tpc, notTbl>>

\* lines 164-174 when the content of a cell cannot be rendered
TblRowRaises ==
    /\ tpc = "rows"
    /\ tqueue # <<>>
    /\ Head(tqueue).k = "dict"
    /\ ~BodyRow(Head(tqueue), Len(theader)).ok
    /\ tpc' = "raised"
    /\ UNCHANGED <<tblock, theader, tqueue, tbody, tlines, notTbl>>

\* lines 176-182: the header row, the separator row, the body rows
TblEmit ==
    /\ tpc = "rows"
    /\ tqueue = <<>>
    /\ tlines' = TableLines(theader, tbody)
    /\ tpc' = "done"
    /\ UNCHANGED <<tblock, theader, tqueue, tbody, notTbl>>

TblNext ==
    \/ TblEmpty
    \/ TblHeader
    \/ TblHeaderRaises
    \/ TblRowSkip
    \/ TblRow
    \/ TblRowRaises
    \/ TblEmit

SpecTable == TblInit /\ [][TblNext]_vars

\* the number of --- entries of a separator line
SepEntries(line) ==
    Cardinality({i \in 1..(Len(line) - 2) : SubSeq(line, i, i + 2) = <<"-", "-", "-">>})

Emitted == tpc = "done" /\ tlines # <<>>

C3_WidthIsMaxSpanSum ==
    Emitted => Len(theader) = Max(1, ColCount(TableRows(tblock)).n)

\* ------------------------------------------------------- block renderers
\* The Chinese literals of the source are kept as one token of text each, named
\* in English.

RECURSIVE Hashes(_)
\* "#" * level
Hashes(n) == IF n <= 0 THEN <<>> ELSE <<"#">> \o Hashes(n - 1)

\* _render_heading; min(6, level) fails on a level that is no number
RenderHeading(block) ==
    LET level == GetOr(block, "level", PyInt(2))
        text == PyOr(Get(block, "text"), PyStr(<<>>))
        subtitle == Get(block, "subtitle")
        subtitle_text == IF Truthy(subtitle)
                         THEN <<" ", "_">> \o EscapeText(subtitle, FALSE) \o <<"_">> ELSE <<>>
    IN IF ~IntOf(level).ok THEN Raised(0)
       ELSE LET clamped == Max(1, IF IntOf(level).n < 6 THEN IntOf(level).n ELSE 6)
            IN Ok(Hashes(clamped) \o <<" ">> \o EscapeText(text, FALSE) \o subtitle_text, 0)

\* _render_paragraph
RenderParagraph(block) == RenderInlines(GetOr(block, "inlines", PyList(<<>>)), FALSE)

Fence == <<Backtick, Backtick, Backtick>>

\* _render_code
RenderCode(block) ==
    LET lang == PyOr(Get(block, "lang"), PyStr(<<>>))
        content == PyOr(Get(block, "content"), PyStr(<<>>))
    IN Ok(Fence \o PyStrOf(lang) \o <<"\n">> \o PyStrOf(content) \o <<"\n">> \o Fence, 0)

\* _render_math
RenderMath(block) ==
    LET latex == NormalizeMath(GetOr(block, "latex", PyStr(<<>>)))
    IN IF latex = <<>> THEN Ok(<<>>, 0)
       ELSE Ok(<<"$", "$", "\n">> \o latex \o <<"\n", "$", "$">>, 0)

\* _render_figure
RenderFigure(block) ==
    LET caption == PyOr(Get(block, "caption"), PyStr(<<"image-placeholder">>))
    IN Ok(<<">", " ", "!", "[", "figure-placeholder", "]", "(", ")", " ">>
          \o EscapeText(caption, FALSE), 0)

\* _quote_lines
QuoteLines(text) ==
    LET lines == SplitLines(text)
    IN Join([i \in 1..Len(lines) |->
                IF Strip(lines[i]) = <<>> THEN <<">">> ELSE <<">", " ">> \o Strip(lines[i])],
            <<"\n">>)

\* the index of the first call that raised, 0 when none did
FirstExc(rs) ==
    IF \E i \in 1..Len(rs) : rs[i].exc
    THEN CHOOSE i \in 1..Len(rs) : rs[i].exc /\ \A j \in 1..(i - 1) : ~rs[j].exc
    ELSE 0

RECURSIVE LogsUpTo(_, _)
\* the calls of logger.debug made by the first n calls
LogsUpTo(rs, n) == IF n = 0 THEN 0 ELSE LogsUpTo(rs, n - 1) + rs[n].logs

\* the texts of the calls, each stripped, the empty ones dropped
StrippedTexts(rs) == NonEmpty([i \in 1..Len(rs) |-> Strip(rs[i].text)])

\* str.lower(): the letters, and the whole-word tokens the inputs use
UpperToLower ==
    [c \in {"A", "B", "C", "D", "U", "W", "Up", "Down", "Chart.js", "WordCloud"} |->
        CASE c = "A" -> "a" [] c = "B" -> "b" [] c = "C" -> "c" [] c = "D" -> "d"
          [] c = "U" -> "u" [] c = "W" -> "w" [] c = "Up" -> "up" [] c = "Down" -> "down"
          [] c = "Chart.js" -> "chart.js" [] c = "WordCloud" -> "wordcloud"]
Lower(s) == [i \in 1..Len(s) |-> IF s[i] \in DOMAIN UpperToLower THEN UpperToLower[s[i]] ELSE s[i]]

\* one entry of a SWOT or PEST quadrant, normalised; kind is "swot" or "pest"
NormalizeEntry(entry, kind) ==
    IF entry.k = "str" THEN [k |-> "dict", title |-> entry]
    ELSE LET title == PyOr(PyOr(Get(entry, "title"), Get(entry, "label")), Get(entry, "text"))
             detail == PyOr(Get(entry, "detail"), Get(entry, "description"))
         IN IF kind = "swot"
            THEN [k |-> "dict", title |-> PyOr(title, PyStr(<<"unnamed-point">>)),
                  detail |-> detail, impact |-> Get(entry, "impact"),
                  priority |-> Get(entry, "priority"), evidence |-> Get(entry, "evidence")]
            ELSE [k |-> "dict", title |-> PyOr(title, PyStr(<<"unnamed-point">>)),
                  detail |-> detail, impact |-> Get(entry, "impact"),
                  priority |-> Get(entry, "priority"), weight |-> Get(entry, "weight")]

\* _normalize_swot_items / _normalize_pest_items: the items, or a failure when
\* raw cannot be iterated
NormalizeItems(raw, kind) ==
    IF ~Iter(raw).ok THEN [ok |-> FALSE, items |-> <<>>]
    ELSE LET kept == SelectSeq(Iter(raw).items, LAMBDA e : e.k \in {"str", "dict"})
         IN [ok |-> TRUE, items |-> [i \in 1..Len(kept) |-> NormalizeEntry(kept[i], kind)]]

\* the row of one item in a quadrant table
MatrixRow(idx, item, kind) ==
    LET tagKeys == IF kind = "swot" THEN <<"impact", "priority">>
                   ELSE <<"impact", "weight", "priority">>
        tags == SelectSeq([i \in 1..Len(tagKeys) |-> Get(item, tagKeys[i])], Truthy)
        tag_text == Join([i \in 1..Len(tags) |-> EscapeText(tags[i], FALSE)], <<" ", "/", " ">>)
        detail == IF kind = "swot"
                  THEN PyOr(PyOr(PyOr(Get(item, "detail"), Get(item, "description")),
                                 Get(item, "evidence")), PyStr(<<>>))
                  ELSE PyOr(PyOr(Get(item, "detail"), Get(item, "description")), PyStr(<<>>))
    IN MarkdownRow(<<Decimal(idx),
                     EscapeText(PyOr(Get(item, "title"), PyStr(<<"unnamed-point">>)), TRUE),
                     EscapeText(detail, TRUE),
                     EscapeText(PyStr(tag_text), TRUE)>>)

\* the part of the output one quadrant gives: its heading, then its table or
\* the no-data line
QuadrantParts(items, label, kind) ==
    IF items = <<>> THEN <<<<"#", "#", "#", "#", " ", label>>, <<">", " ", "no-data">>>>
    ELSE <<<<"#", "#", "#", "#", " ", label>>,
           Join(<<MarkdownRow(<<<<"no.">>, <<"point">>, <<"detail">>, <<"tags">>>>),
                  MarkdownSeparator(4)>>
                \o [i \in 1..Len(items) |-> MatrixRow(i, items[i], kind)],
                <<"\n">>)>>

SwotQuadrants ==
    <<<<"strengths", "S-strengths">>, <<"weaknesses", "W-weaknesses">>,
      <<"opportunities", "O-opportunities">>, <<"threats", "T-threats">>>>
PestDimensions ==
    <<<<"political", "P-political">>, <<"economic", "E-economic">>,
      <<"social", "S-social">>, <<"technological", "T-technological">>>>

\* _render_swot_table (kind "swot") and _render_pest_table (kind "pest")
RenderMatrix(block, kind) ==
    LET quadrants == IF kind = "swot" THEN SwotQuadrants ELSE PestDimensions
        title == PyOr(Get(block, "title"),
                      PyStr(IF kind = "swot" THEN <<"SWOT-analysis">> ELSE <<"PEST-analysis">>))
        summary == Get(block, "summary")
        head == <<<<"#", "#", "#", " ">> \o EscapeText(title, FALSE)>>
                \o (IF Truthy(summary) THEN <<EscapeText(summary, FALSE)>> ELSE <<>>)
        each == [q \in 1..4 |-> NormalizeItems(Get(block, quadrants[q][1]), kind)]
    IN IF \E q \in 1..4 : ~each[q].ok THEN Raised(0)
       ELSE Ok(Join(head \o QuadrantParts(each[1].items, quadrants[1][2], kind)
                         \o QuadrantParts(each[2].items, quadrants[2][2], kind)
                         \o QuadrantParts(each[3].items, quadrants[3][2], kind)
                         \o QuadrantParts(each[4].items, quadrants[4][2], kind),
                    <<"\n", "\n">>), 0)

\* _format_delta: the text, or a failure when the tone has no lower()
FormatDelta(delta, tone) ==
    IF delta.k = "none" THEN [ok |-> TRUE, text |-> <<>>]
    ELSE IF PyOr(tone, PyStr(<<>>)).k # "str" THEN [ok |-> FALSE, text |-> <<>>]
    ELSE LET tone_val == Lower(PyOr(tone, PyStr(<<>>)).s)
             prefix == IF tone_val \in {<<"up">>, <<"increase">>, <<"positive">>}
                           THEN <<"up-triangle", " ">>
                       ELSE IF tone_val \in {<<"down">>, <<"decrease">>, <<"negative">>}
                           THEN <<"down-triangle", " ">>
                       ELSE <<>>
         IN [ok |-> TRUE, text |-> prefix \o PyStrOf(delta)]

\* the row of one item of _render_kpi_grid, or a failure
KpiRow(item) ==
    IF item.k # "dict" THEN [ok |-> FALSE, text |-> <<>>]
    ELSE LET label == PyOr(Get(item, "label"), PyStr(<<>>))
             value == PyStrOf(GetOr(item, "value", PyStr(<<>>)))
                      \o PyStrOf(PyOr(Get(item, "unit"), PyStr(<<>>)))
             delta == FormatDelta(Get(item, "delta"), Get(item, "deltaTone"))
         IN IF ~delta.ok THEN [ok |-> FALSE, text |-> <<>>]
            ELSE [ok |-> TRUE,
                  text |-> MarkdownRow(<<EscapeText(label, TRUE),
                                         EscapeText(PyStr(value), TRUE),
                                         EscapeText(PyStr(delta.text), TRUE)>>)]

\* _render_kpi_grid
RenderKpiGrid(block) ==
    LET items == Iter(Get(block, "items"))
        rows == [i \in 1..Len(items.items) |-> KpiRow(items.items[i])]
    IN IF ~items.ok THEN Raised(0)
       ELSE IF items.items = <<>> THEN Ok(<<>>, 0)
       ELSE IF \E i \in 1..Len(rows) : ~rows[i].ok THEN Raised(0)
       ELSE Ok(Join(<<MarkdownRow(<<<<"metric">>, <<"value">>, <<"change">>>>),
                      MarkdownSeparator(3)>>
                    \o [i \in 1..Len(rows) |-> rows[i].text],
                    <<"\n">>), 0)

\* ---------------------------------------------------------------- widgets
RECURSIVE JsonCompact(_)
\* json.dumps(v, ensure_ascii=False)
JsonCompact(v) ==
    CASE v.k = "none" -> <<"n", "u", "l", "l">>
      [] v.k = "bool" -> IF v.b THEN <<"t", "r", "u", "e">> ELSE <<"f", "a", "l", "s", "e">>
      [] v.k = "int" -> PyStrOf(v)
      [] v.k = "str" -> <<"\"">> \o ReplaceChar(Escaped(v.s), "\"", <<"\\", "\"">>) \o <<"\"">>
      [] v.k = "list" ->
           <<"[">> \o Join([i \in 1..Len(v.items) |-> JsonCompact(v.items[i])], <<",", " ">>)
           \o <<"]">>
      [] v.k = "dict" ->
           <<"{">> \o Join([i \in 1..Len(KeysOf(v)) |->
                              <<"\"", KeysOf(v)[i], "\"", ":", " ">>
                              \o JsonCompact(v[KeysOf(v)[i]])],
                           <<",", " ">>)
           \o <<"}">>

RECURSIVE StringifyValue(_)
\* _stringify_value
StringifyValue(value) ==
    CASE value.k = "none" -> <<>>
      [] value.k = "int" -> PyStrOf(value)
      [] value.k = "dict" ->
           IF "y" \in DOMAIN value THEN PyStrOf(value["y"])
           ELSE IF "value" \in DOMAIN value THEN PyStrOf(value["value"])
           ELSE JsonCompact(value)
      [] value.k = "list" ->
           Join([i \in 1..Len(value.items) |-> StringifyValue(value.items[i])], <<",", " ">>)
      [] OTHER -> PyStrOf(value)

HasSeries(d) == "labels" \in DOMAIN d \/ "datasets" \in DOMAIN d

\* _coerce_chart_data
CoerceChartData(data) ==
    LET nested(key) == Get(data, key).k = "dict" /\ HasSeries(Get(data, key))
    IN IF data.k # "dict" THEN [k |-> "dict"]
       ELSE IF HasSeries(data) THEN data
       ELSE IF nested("data") THEN Get(data, "data")
       ELSE IF nested("chartData") THEN Get(data, "chartData")
       ELSE IF nested("payload") THEN Get(data, "payload")
       ELSE data

\* the header of one dataset, or a failure: ds.get fails on what is no mapping
\* and join fails on a label that is no string
SeriesHeader(ds, idx) ==
    IF ds.k # "dict" THEN [ok |-> FALSE, text |-> <<>>]
    ELSE IF ~Truthy(Get(ds, "label")) THEN [ok |-> TRUE, text |-> <<"series">> \o Decimal(idx)]
    ELSE IF Get(ds, "label").k = "str" THEN [ok |-> TRUE, text |-> Get(ds, "label").s]
    ELSE [ok |-> FALSE, text |-> <<>>]

\* the cell of dataset ds in the row of the label at position idx (from 1), or
\* a failure when its data has no length
SeriesCell(ds, idx) ==
    LET series == PyOr(Get(ds, "data"), PyList(<<>>))
    IN IF series.k \notin {"list", "str"} THEN [ok |-> FALSE, text |-> <<>>]
       ELSE LET items == Iter(series).items
                value == IF idx <= Len(items) THEN items[idx] ELSE PyStr(<<>>)
            IN [ok |-> TRUE, text |-> EscapeText(PyStr(StringifyValue(value)), TRUE)]

\* _render_chart_as_table
RenderChartAsTable(block) ==
    LET data == CoerceChartData(PyOr(Get(block, "data"), [k |-> "dict"]))
        labels == Iter(Get(data, "labels"))
        datasets == Iter(Get(data, "datasets"))
        L == labels.items
        D == datasets.items
        heads == [d \in 1..Len(D) |-> SeriesHeader(D[d], d)]
        cell == [i \in 1..Len(L) |-> [d \in 1..Len(D) |-> SeriesCell(D[d], i)]]
        row(i) == MarkdownRow(<<EscapeText(PyStr(StringifyValue(L[i])), TRUE)>>
                              \o [d \in 1..Len(D) |-> cell[i][d].text])
    IN IF ~Truthy(Get(data, "labels")) \/ ~Truthy(Get(data, "datasets"))
       THEN Ok(<<">", " ", "chart-data-missing">>, 0)
       ELSE IF ~labels.ok \/ ~datasets.ok THEN Raised(0)
       ELSE IF \E d \in 1..Len(D) : ~heads[d].ok THEN Raised(0)
       ELSE IF \E i \in 1..Len(L), d \in 1..Len(D) : ~cell[i][d].ok THEN Raised(0)
       ELSE Ok(Join(<<MarkdownRow(<<<<"category">>>> \o [d \in 1..Len(D) |-> heads[d].text]),
                      MarkdownSeparator(1 + Len(D))>>
                    \o [i \in 1..Len(L) |-> row(i)],
                    <<"\n">>), 0)

\* _collect_wordcloud_items as one call: the items after the first n entries
CollectItems(block) ==
    LET all == Flatten(Candidates(block))
        F[i \in 0..Len(all)] ==
            IF i = 0 THEN [items |-> <<>>, seen |-> {}]
            ELSE LET a == PushArgs(all[i])
                     key == SeenKey(a.word, a.category)
                 IN IF ~Pushes(all[i]) \/ key \in F[i - 1].seen THEN F[i - 1]
                    ELSE [items |-> Append(F[i - 1].items, a), seen |-> F[i - 1].seen \cup {key}]
    IN F[Len(all)].items

\* the table _render_wordcloud_as_table draws of the collected items
WordcloudTable(items) ==
    LET row(i) == MarkdownRow(<<EscapeText(PyStr(items[i].word), TRUE),
                                EscapeText(PyStr(StringifyValue(items[i].weight)), TRUE),
                                EscapeText(IF items[i].category = <<>> THEN PyStr(<<"-">>)
                                           ELSE PyStr(items[i].category), TRUE)>>)
    IN IF items = <<>> THEN Ok(<<">", " ", "wordcloud-data-missing">>, 0)
       ELSE Ok(Join(<<MarkdownRow(<<<<"keyword">>, <<"weight">>, <<"category">>>>),
                      MarkdownSeparator(3)>>
                    \o [i \in 1..Len(items) |-> row(i)],
                    <<"\n">>), 0)

\* _render_wordcloud_as_table; props.get fails on props that are no mapping
RenderWordcloudAsTable(block) ==
    IF PyOr(Get(block, "props"), [k |-> "dict"]).k # "dict" THEN Raised(0)
    ELSE WordcloudTable(CollectItems(block))

\* needle in haystack, for texts
Contains(haystack, needle) ==
    \E i \in 1..(Len(haystack) - Len(needle) + 1) :
        SubSeq(haystack, i, i + Len(needle) - 1) = needle

\* text[:n]
Prefix(text, n) == SubSeq(text, 1, IF Len(text) < n THEN Len(text) ELSE n)

\* title_prefix, line 317
TitlePrefix(title) ==
    IF Truthy(title)
    THEN <<"*", "*">> \o EscapeText(title, FALSE) \o <<"*", "*", "\n", "\n">>
    ELSE <<>>

\* lines 320 and 322: f"{title_prefix}{table}".strip()
Titled(title_prefix, table) ==
    IF table.exc THEN Raised(0) ELSE Ok(Strip(title_prefix \o table.text), 0)

\* lines 325-331: the note of an unsupported widget and the preview of its data
Unsupported(title_prefix, preview) ==
    Ok(title_prefix \o <<">", " ", "widget-not-supported">>
       \o (IF preview # <<>> THEN <<"\n", "\n">> \o Fence \o <<"\n">> \o preview
                                  \o <<"\n">> \o Fence
           ELSE <<>>), 0)

\* lines 317-331 of _render_widget, the widget type and the title being known
WidgetBody(block, wt, title_prefix) ==
    IF StartsWith(Lower(wt), <<"chart.js">>)
    THEN Titled(title_prefix, RenderChartAsTable(block))
    ELSE IF Contains(Lower(wt), <<"wordcloud">>)
    THEN Titled(title_prefix, RenderWordcloudAsTable(block))
    ELSE Unsupported(title_prefix,
                     Prefix(JsonCompact(PyOr(Get(block, "data"), [k |-> "dict"])), PreviewLimit))

\* _render_widget
RenderWidget(block) ==
    LET wt == PyOr(Get(block, "widgetType"), PyStr(<<>>))
        props == PyOr(GetOr(block, "props", [k |-> "dict"]), [k |-> "dict"])
        title == PyOr(Get(block, "title"), IF props.k = "dict" THEN Get(props, "title") ELSE None)
    IN IF wt.k # "str" THEN Raised(0)
       ELSE IF ~Truthy(Get(block, "title")) /\ props.k # "dict" THEN Raised(0)
       ELSE WidgetBody(block, wt.s, TitlePrefix(title))

\* ---------------------------------------------------------------- fallback
\* the fallback, were its payload the string form of the block instead of its JSON
FallbackRepr(block) ==
    IF lsink = "raises" THEN Raised(1)
    ELSE Ok(Fence \o <<"json", "\n">> \o PyRepr(block) \o <<"\n">> \o Fence, 1)

\* _fallback_unknown: the fenced JSON capture, after one call of logger.debug
\* that either returns or raises
FallbackUnknown(block) ==
    IF lsink = "raises" THEN Raised(1)
    ELSE Ok(Fence \o <<"json", "\n">> \o JsonDumps(block, 0) \o <<"\n">> \o Fence, 1)

\* ------------------------------------------------------- block dispatcher
\* the keys of the handlers table, lines 76-93
Handled ==
    {"heading", "paragraph", "list", "table", "swotTable", "pestTable", "blockquote",
     "engineQuote", "hr", "code", "math", "figure", "callout", "kpiGrid", "widget", "toc"}

\* block.get("type") or ("paragraph" if block.get("inlines") else None)
BlockType(block) ==
    PyOr(Get(block, "type"),
         IF Truthy(Get(block, "inlines")) THEN TypeStr("paragraph") ELSE None)

\* block_type in handlers
InHandlers(type) == type.k = "str" /\ Len(type.s) = 1 /\ type.s[1] \in Handled

\* the branch of _render_block a value takes: "empty" (None or no mapping),
\* "text" (a string), "raise" (a type that cannot be hashed), "handler",
\* "container" (a list under blocks) or "fallback"
Route(block) ==
    IF block.k = "str" THEN "text"
    ELSE IF block.k # "dict" THEN "empty"
    ELSE IF BlockType(block).k \in {"list", "dict"} THEN "raise"
    ELSE IF InHandlers(BlockType(block)) THEN "handler"
    ELSE IF Get(block, "blocks").k = "list" THEN "container"
    ELSE "fallback"

\* the join at the end of _render_blocks, rs being what each block rendered to
JoinBlocks(rs, join_with_blank) ==
    IF FirstExc(rs) # 0 THEN Raised(LogsUpTo(rs, FirstExc(rs)))
    ELSE Ok(Join(StrippedTexts(rs), IF join_with_blank THEN <<"\n", "\n">> ELSE <<"\n">>),
            LogsUpTo(rs, Len(rs)))

\* the lines one list item gives: the marker line, then the indented rest
ItemLines(prefix, content) ==
    LET lines == SplitLines(content)
    IN <<prefix \o <<" ">> \o lines[1]>>
       \o [i \in 1..(Len(lines) - 1) |-> <<" ", " ">> \o lines[i + 1]]

\* the loop of _render_list, rs being what each item rendered to
ListLines(list_type, rs) ==
    LET prefix(i) == IF list_type = PyStr(<<"ordered">>) THEN Decimal(i) \o <<".">>
                     ELSE IF list_type = PyStr(<<"task">>) THEN <<"-", " ", "[", " ", "]">>
                     ELSE <<"-">>
        lines == [i \in 1..Len(rs) |->
                    IF rs[i].text = <<>> THEN <<>>
                    ELSE Join(ItemLines(prefix(i), rs[i].text), <<"\n">>)]
    IN IF FirstExc(rs) # 0 THEN Raised(LogsUpTo(rs, FirstExc(rs)))
       ELSE Ok(Join(NonEmpty(lines), <<"\n">>), LogsUpTo(rs, Len(rs)))

\* _render_blockquote, _render_engine_quote and _render_callout around the
\* rendering inner of the nested blocks
Quoted(block, kind, inner) ==
    LET bold(title) == <<"*", "*">> \o EscapeText(title, FALSE) \o <<"*", "*">>
        tone == <<"[">> \o PyStrOf(PyOr(Get(block, "tone"), PyStr(<<"info">>))) \o <<"]">>
        header ==
            IF kind = "engineQuote"
            THEN bold(PyOr(PyOr(Get(block, "title"), Get(block, "engine")), PyStr(<<"quote">>)))
            ELSE IF Truthy(Get(block, "title")) THEN bold(Get(block, "title")) \o <<" ">> \o tone
            ELSE tone
        content == IF kind = "blockquote" THEN inner.text
                   ELSE IF inner.text = <<>> THEN header
                   ELSE header \o <<"\n">> \o inner.text
    IN IF inner.exc THEN Raised(inner.logs) ELSE Ok(QuoteLines(content), inner.logs)

RECURSIVE RenderBlocks(_, _)
RECURSIVE RenderBlock(_)
RECURSIVE RenderList(_)
RECURSIVE RenderQuote(_, _)

\* _render_blocks
RenderBlocks(blocks, join_with_blank) ==
    IF ~Iter(blocks).ok THEN Raised(0)
    ELSE JoinBlocks([i \in 1..Len(Iter(blocks).items) |-> RenderBlock(Iter(blocks).items[i])],
                    join_with_blank)

\* _render_list
RenderList(block) ==
    IF ~Iter(Get(block, "items")).ok THEN Raised(0)
    ELSE ListLines(GetOr(block, "listType", PyStr(<<"bullet">>)),
                   [i \in 1..Len(Iter(Get(block, "items")).items) |->
                      RenderBlocks(Iter(Get(block, "items")).items[i], FALSE)])

\* a quote, an engine quote or a callout: the nested blocks, then the frame
RenderQuote(block, kind) ==
    Quoted(block, kind, RenderBlocks(GetOr(block, "blocks", PyList(<<>>)), TRUE))

\* the call handlers[block_type](block)
Handle(type, block) ==
    CASE type = "heading" -> RenderHeading(block)
      [] type = "paragraph" -> RenderParagraph(block)
      [] type = "list" -> RenderList(block)
      [] type = "table" -> RenderTable(block)
      [] type = "swotTable" -> RenderMatrix(block, "swot")
      [] type = "pestTable" -> RenderMatrix(block, "pest")
      [] type \in {"blockquote", "engineQuote", "callout"} -> RenderQuote(block, type)
      [] type = "hr" -> Ok(<<"-", "-", "-">>, 0)
      [] type = "code" -> RenderCode(block)
      [] type = "math" -> RenderMath(block)
      [] type = "figure" -> RenderFigure(block)
      [] type = "kpiGrid" -> RenderKpiGrid(block)
      [] type = "widget" -> RenderWidget(block)
      [] type = "toc" -> Ok(<<>>, 0)

\* _render_block
RenderBlock(block) ==
    CASE Route(block) = "empty" -> Ok(<<>>, 0)
      [] Route(block) = "text" -> Ok(EscapeText(block, FALSE), 0)
      [] Route(block) = "raise" -> Raised(0)
      [] Route(block) = "handler" -> Handle(BlockType(block).s[1], block)
      [] Route(block) = "container" -> RenderBlocks(Get(block, "blocks"), TRUE)
      [] Route(block) = "fallback" -> FallbackUnknown(block)

\* ------------------------------------------------ _render_block, one call
Typed(name) == [k |-> "dict", type |-> TypeStr(name)]
BoldX == Run(PyStr(<<"x">>), <<Mark("bold", None, None)>>)
PlainX == Run(PyStr(<<"x">>), <<>>)
HeadingA == With(With(Typed("heading"), "level", PyInt(3)), "text", PyStr(<<"A">>))
UnknownLeaf == With(Typed("nonexistentKind"), "foo", PyInt(1))
Paragraph == With(Typed("paragraph"), "inlines", PyList(<<BoldX, PyStr(<<" ", "y">>)>>))

\* blocks of an unrecognized, empty, numeric or missing type
UnknownInputs ==
    { With(With(With(With(Dict, "type", type), "inlines", inlines), "blocks", blocks), "foo", foo) :
        type \in {Absent, TypeStr("nonexistentKind"), PyStr(<<>>), PyInt(5)},
        inlines \in {Absent, PyList(<<PlainX>>)},
        blocks \in {Absent, PyList(<<HeadingA, UnknownLeaf>>), PyList(<<>>), PyStr(<<"t">>)},
        foo \in {Absent, PyInt(1)} }

\* blocks of the recognized types, well formed and not
HandledInputs ==
    { HeadingA, Paragraph,
      With(Typed("heading"), "level", PyInt(9)),
      With(With(Typed("heading"), "level", PyStr(<<"x">>)), "text", PyStr(<<"A">>)),
      With(With(Typed("heading"), "text", PyStr(<<"A">>)), "subtitle", PyStr(<<"s">>)),
      With(Typed("heading"), "blocks", PyList(<<UnknownLeaf>>)),
      With(With(Typed("list"), "listType", PyStr(<<"ordered">>)),
           "items", PyList(<<PyList(<<PyStr(<<"a">>), HeadingA>>), PyList(<<>>),
                             PyList(<<UnknownLeaf>>)>>)),
      With(Typed("list"), "items", PyList(<<PyList(<<Paragraph>>)>>)),
      With(With(Typed("list"), "listType", PyStr(<<"task">>)), "items", PyInt(3)),
      TableBlock(PyList(<<TableRow(<<CellH, CellH>>), TableRow(<<CellS2, CellA>>)>>)),
      TableBlock(PyList(<<TableRow(<<CellA, CellNotMapping>>)>>)),
      TableBlock(PyList(<<TableRow(<<With(Dict, "blocks", PyList(<<UnknownLeaf>>))>>)>>)),
      With(With(Typed("swotTable"), "strengths", PyList(<<PyStr(<<"s">>)>>)),
           "weaknesses", PyList(<<>>)),
      With(Typed("swotTable"), "threats", PyInt(5)),
      With(With(Typed("pestTable"), "summary", PyStr(<<"m">>)),
           "economic", PyList(<<With(With(Dict, "label", PyStr(<<"e">>)), "weight", PyInt(2))>>)),
      With(Typed("blockquote"), "blocks", PyList(<<PyStr(<<"q">>), UnknownLeaf>>)),
      With(Typed("engineQuote"), "blocks", PyList(<<HeadingA>>)),
      With(Typed("callout"), "title", PyStr(<<"t">>)),
      Typed("hr"), Typed("toc"), Typed("figure"), Typed("math"),
      With(Typed("math"), "latex", PyStr(<<"$", "$", "e", "$", "$">>)),
      With(With(Typed("code"), "lang", PyStr(<<"py">>)), "content", PyStr(<<"c", "\n", "d">>)),
      With(Typed("kpiGrid"), "items",
           PyList(<<With(With(With(With(Dict, "label", PyStr(<<"k">>)), "value", PyInt(4)),
                              "delta", PyInt(1)), "deltaTone", PyStr(<<"Up">>))>>)),
      With(Typed("kpiGrid"), "items", PyList(<<PyStr(<<"k">>)>>)),
      With(With(Typed("widget"), "widgetType", PyStr(<<"Chart.js", "/", "bar">>)),
           "data", With(With(Dict, "labels", PyList(<<PyStr(<<"Q1">>), PyStr(<<"Q2">>)>>)),
                        "datasets", PyList(<<With(With(Dict, "label", PyStr(<<"Rev">>)),
                                                  "data", PyList(<<PyInt(10)>>))>>))),
      With(With(Typed("widget"), "widgetType", PyStr(<<"chart.js", "/", "bar">>)),
           "data", With(With(Dict, "labels", PyList(<<PyStr(<<"Q1">>)>>)),
                        "datasets", PyList(<<PyStr(<<"Rev">>)>>))),
      With(With(Typed("widget"), "widgetType", PyStr(<<"WordCloud">>)),
           "data", PyList(<<PyStr(<<"a">>), PyList(<<PyStr(<<"b">>), PyInt(2)>>)>>)),
      With(With(Typed("widget"), "title", PyStr(<<"t">>)), "data", With(Dict, "foo", PyInt(1))),
      With(Typed("widget"), "widgetType", PyInt(1)),
      With(Dict, "type", PyList(<<PyStr(<<"x">>)>>)) }

BlockInputs == {None, PyStr(<<" ", "a">>), PyInt(3)} \cup UnknownInputs \cup HandledInputs

BlkInit ==
    /\ bblock \in BlockInputs
    /\ bout = None
    /\ bpc = "start"
    /\ lsink \in {"ok", "raises"}
    /\ IdleExcept("blk")

\* lines 68-69 and 72-73: None, or a value that is neither a string nor a mapping
BlkEmpty ==
    /\ bpc = "start"
    /\ Route(bblock) = "empty"
    /\ bout' = Ok(<<>>, 0)
    /\ bpc' = "empty"
    /\ UNCHANGED <<bblock, lsink, notBlk>>

\* lines 70-71: a string
BlkText ==
    /\ bpc = "start"
    /\ Route(bblock) = "text"
    /\ bout' = Ok(EscapeText(bblock, FALSE), 0)
    /\ bpc' = "text"
    /\ UNCHANGED <<bblock, lsink, notBlk>>

\* line 94 on a type that cannot be hashed
BlkRaise ==
    /\ bpc = "start"
    /\ Route(bblock) = "raise"
    /\ bout' = Raised(0)
    /\ bpc' = "raise"
    /\ UNCHANGED <<bblock, lsink, notBlk>>

\* lines 94-95: the handler of a recognized type
BlkHandler ==
    /\ bpc = "start"
    /\ Route(bblock) = "handler"
    /\ bout' = Handle(BlockType(bblock).s[1], bblock)
    /\ bpc' = "handler"
    /\ UNCHANGED <<bblock, lsink, notBlk>>

\* lines 97-98: the nested blocks of a block of no recognized type
BlkContainer ==
    /\ bpc = "start"
    /\ Route(bblock) = "container"
    /\ bout' = RenderBlocks(Get(bblock, "blocks"), TRUE)
    /\ bpc' = "container"
    /\ UNCHANGED <<bblock, lsink, notBlk>>

\* line 100: the fallback
BlkFallback ==
    /\ bpc = "start"
    /\ Route(bblock) = "fallback"
    /\ bout' = FallbackUnknown(bblock)
    /\ bpc' = "fallback"
    /\ UNCHANGED <<bblock, lsink, notBlk>>

BlkNext == BlkEmpty \/ BlkText \/ BlkRaise \/ BlkHandler \/ BlkContainer \/ BlkFallback

SpecBlock == BlkInit /\ [][BlkNext]_vars

\* ------------------------------------------------------ claims on dispatch
\* a mapping whose type is a string that is none of the sixteen recognized kinds
UnknownKind(block) ==
    block.k = "dict" /\ Get(block, "type").k = "str" /\ ~InHandlers(Get(block, "type"))

\* the fenced code block holding the JSON serialization of the whole block
FencedJson(block) == Fence \o <<"json", "\n">> \o JsonDumps(block, 0) \o <<"\n">> \o Fence

UnknownLeafKind(block) ==
    /\ UnknownKind(block)
    /\ Get(block, "blocks").k # "list"
    /\ Truthy(Get(block, "type")) \/ ~Truthy(Get(block, "inlines"))

\* an unrecognized, non-empty kind that carries a list under blocks
UnknownContainerKind(block) ==
    UnknownKind(block) /\ Truthy(Get(block, "type")) /\ Get(block, "blocks").k = "list"

C6_SinkFailureContained ==
    /\ (bpc = "fallback" /\ lsink = "raises") => bout = Ok(FencedJson(bblock), 1)
    /\ (bpc \in {"container", "handler"} /\ lsink = "raises" /\ bout.logs > 0) => ~bout.exc

\* ------------------------------------------------------------------ render
\* the title render falls back on when the metadata names none
DefaultTitle == <<"report">>

\* lines 28-31: parts after the title has been appended
TitleParts(metadata) ==
    LET title == PyOr(PyOr(Get(metadata, "title"), Get(metadata, "query")), PyStr(DefaultTitle))
    IN IF Truthy(title) THEN <<<<"#", " ">> \o EscapeText(title, FALSE), <<>>>> ELSE <<>>

\* lines 43-51 of _render_chapter, body being what _render_blocks gave
ChapterText(title, body) ==
    IF body.exc THEN Raised(body.logs)
    ELSE Ok(Strip(Join((IF Truthy(title)
                        THEN <<<<"#", "#", " ">> \o EscapeText(title, FALSE), <<>>>>
                        ELSE <<>>)
                       \o (IF body.text # <<>> THEN <<body.text>> ELSE <<>>),
                       <<"\n">>)),
            body.logs)

\* _render_chapter; chapter.get fails on a chapter that is no mapping
RenderChapter(chapter) ==
    IF chapter.k # "dict" THEN Raised(0)
    ELSE ChapterText(PyOr(Get(chapter, "title"), Get(chapter, "chapterId")),
                     RenderBlocks(GetOr(chapter, "blocks", PyList(<<>>)), TRUE))

\* line 38: "\n".join(parts).strip()
JoinParts(parts) == Strip(Join(parts, <<"\n">>))

\* lines 33-38, rs being what _render_chapter gave for each chapter
RenderJoined(parts, rs) ==
    IF FirstExc(rs) # 0 THEN Raised(LogsUpTo(rs, FirstExc(rs)))
    ELSE Ok(JoinParts(parts \o NonEmpty([i \in 1..Len(rs) |-> rs[i].text])), LogsUpTo(rs, Len(rs)))

\* render as one call that no other call interleaves with
Render(document_ir) ==
    LET document == PyOr(document_ir, Dict)
        metadata == PyOr(GetOr(document, "metadata", Dict), Dict)
        chapters == Iter(PyOr(GetOr(document, "chapters", PyList(<<>>)), PyList(<<>>)))
    IN IF document.k # "dict" THEN Raised(0)
       ELSE IF metadata.k # "dict" THEN Raised(0)
       ELSE IF ~chapters.ok THEN Raised(0)
       ELSE RenderJoined(TitleParts(metadata),
                         [i \in 1..Len(chapters.items) |-> RenderChapter(chapters.items[i])])

\* ----------------------------------------------- render, line by line
MetaT == With(Dict, "title", PyStr(<<"T">>))
MetaQ == With(Dict, "query", PyStr(<<"Q">>))
ChA == With(Dict, "title", PyStr(<<"A">>))
ChB == With(With(Dict, "chapterId", PyStr(<<"B">>)), "blocks", PyList(<<Paragraph>>))
ChU == With(With(Dict, "title", PyStr(<<"U">>)), "blocks", PyList(<<UnknownLeaf, HeadingA>>))
ChBadLevel ==
    With(Dict, "blocks",
         PyList(<<With(With(Typed("heading"), "level", PyStr(<<"x">>)), "text", PyStr(<<"A">>))>>))
ChBadQuadrant == With(Dict, "blocks", PyList(<<With(Typed("swotTable"), "threats", PyInt(5))>>))
\* a chapter with an unrecognized block in a generic container, in a list item
\* and in a quote, and one with an unrecognized block in a table cell
ChNested ==
    With(Dict, "blocks",
         PyList(<<With(Typed("section"), "blocks", PyList(<<UnknownLeaf>>)),
                  With(Typed("list"), "items", PyList(<<PyList(<<UnknownLeaf>>)>>)),
                  With(Typed("blockquote"), "blocks", PyList(<<UnknownLeaf, HeadingA>>))>>))
ChCell ==
    With(Dict, "blocks",
         PyList(<<TableBlock(PyList(<<TableRow(<<With(Dict, "blocks", Blocks(<<UnknownLeaf>>))>>)>>))>>))

MetadataInputs == {Absent, None, MetaT, MetaQ, PyStr(<<"m">>)}
ChapterInputs ==
    {ChA, ChB, ChU, Dict, PyStr(<<"c">>), ChBadLevel, ChBadQuadrant, ChNested, ChCell}
ChaptersInputs ==
    {Absent, None, PyInt(3)} \cup {PyList(s) : s \in SeqsUpTo(ChapterInputs, MaxChapters)}
Document(metadata, chapters) == With(With(Dict, "metadata", metadata), "chapters", chapters)

\* the documents one call is given, well formed and not
DocumentInputs ==
    {None, PyStr(<<"d">>)}
    \cup {Document(m, c) : m \in MetadataInputs, c \in ChaptersInputs}

\* the documents two calls against one instance are given
DocT == Document(MetaT, PyList(<<ChA>>))
DocQ == Document(MetaQ, PyList(<<ChB, ChU>>))
SharedInputs == {DocT, DocQ, Dict, PyStr(<<"d">>), Document(PyStr(<<"m">>), Absent)}

\* one call of render on the instance
RndInit ==
    /\ selfDocument = Dict
    /\ selfMetadata = Dict
    /\ \E d \in DocumentInputs : rarg = [t \in Threads |-> IF t = 1 THEN d ELSE None]
    /\ rparts = [t \in Threads |-> <<>>]
    /\ rqueue = [t \in Threads |-> <<>>]
    /\ rlogs = [t \in Threads |-> 0]
    /\ rret = [t \in Threads |-> None]
    /\ rpc = [t \in Threads |-> IF t = 1 THEN "L24" ELSE "idle"]
    /\ lsink \in {"ok", "raises"}
    /\ IdleExcept("rnd")

\* two calls of render on the same instance
SharedInit ==
    /\ selfDocument = Dict
    /\ selfMetadata = Dict
    /\ rarg \in [Threads -> SharedInputs]
    /\ rparts = [t \in Threads |-> <<>>]
    /\ rqueue = [t \in Threads |-> <<>>]
    /\ rlogs = [t \in Threads |-> 0]
    /\ rret = [t \in Threads |-> None]
    /\ rpc = [t \in Threads |-> "L24"]
    /\ lsink \in {"ok", "raises"}
    /\ IdleExcept("rnd")

\* the call of thread t ends with an exception after n more calls of logger.debug
Raise(t, n) ==
    /\ rpc' = [rpc EXCEPT ![t] = "raised"]
    /\ rlogs' = [rlogs EXCEPT ![t] = @ + n]
    /\ rret' = [rret EXCEPT ![t] = Raised(rlogs[t] + n)]

\* line 24 as it would be were the field kept when the argument is empty
\* (if document_ir: self.document = document_ir)
AssignDocumentKept(t) ==
    /\ rpc[t] = "L24"
    /\ selfDocument' = IF Truthy(rarg[t]) THEN rarg[t] ELSE selfDocument
    /\ rpc' = [rpc EXCEPT ![t] = "L25"]
    /\ UNCHANGED <<selfMetadata, rarg, rparts, rqueue, rlogs, rret, lsink, notRnd>>

\* line 24: self.document = document_ir or {}
AssignDocument(t) ==
    /\ rpc[t] = "L24"
    /\ selfDocument' = PyOr(rarg[t], Dict)
    /\ rpc' = [rpc EXCEPT ![t] = "L25"]
    /\ UNCHANGED <<selfMetadata, rarg, rparts, rqueue, rlogs, rret, lsink, notRnd>>

\* line 25: self.metadata = self.document.get("metadata", {}) or {}
AssignMetadata(t) ==
    /\ rpc[t] = "L25"
    /\ selfDocument.k = "dict"
    /\ selfMetadata' = PyOr(GetOr(selfDocument, "metadata", Dict), Dict)
    /\ rpc' = [rpc EXCEPT ![t] = "L28"]
    /\ UNCHANGED <<selfDocument, rarg, rparts, rqueue, rlogs, rret, lsink, notRnd>>

\* line 25 on a document that has no get
AssignMetadataRaises(t) ==
    /\ rpc[t] = "L25"
    /\ selfDocument.k # "dict"
    /\ Raise(t, 0)
    /\ UNCHANGED <<selfDocument, selfMetadata, rarg, rparts, rqueue, lsink, notRnd>>

\* lines 27-31: the title line and the empty part after it
AppendTitle(t) ==
    /\ rpc[t] = "L28"
    /\ selfMetadata.k = "dict"
    /\ rparts' = [rparts EXCEPT ![t] = TitleParts(selfMetadata)]
    /\ rpc' = [rpc EXCEPT ![t] = "L33"]
    /\ UNCHANGED <<selfDocument, selfMetadata, rarg, rqueue, rlogs, rret, lsink, notRnd>>

\* line 28 on metadata that has no get
AppendTitleRaises(t) ==
    /\ rpc[t] = "L28"
    /\ selfMetadata.k # "dict"
    /\ Raise(t, 0)
    /\ UNCHANGED <<selfDocument, selfMetadata, rarg, rparts, rqueue, lsink, notRnd>>

\* what line 33 iterates over
ChaptersOf(document) == PyOr(GetOr(document, "chapters", PyList(<<>>)), PyList(<<>>))

\* line 33: the loop starts on self.document.get("chapters", []) or []
StartChapters(t) ==
    /\ rpc[t] = "L33"
    /\ selfDocument.k = "dict"
    /\ Iter(ChaptersOf(selfDocument)).ok
    /\ rqueue' = [rqueue EXCEPT ![t] = Iter(ChaptersOf(selfDocument)).items]
    /\ rpc' = [rpc EXCEPT ![t] = "L34"]
    /\ UNCHANGED <<selfDocument, selfMetadata, rarg, rparts, rlogs, rret, lsink, notRnd>>

\* line 33 on a document that has no get, or on chapters that cannot be iterated
StartChaptersRaises(t) ==
    /\ rpc[t] = "L33"
    /\ selfDocument.k # "dict" \/ ~Iter(ChaptersOf(selfDocument)).ok
    /\ Raise(t, 0)
    /\ UNCHANGED <<selfDocument, selfMetadata, rarg, rparts, rqueue, lsink, notRnd>>

\* lines 34-36: one chapter rendered and, when not empty, appended
AppendChapter(t) ==
    /\ rpc[t] = "L34"
    /\ rqueue[t] # <<>>
    /\ ~RenderChapter(Head(rqueue[t])).exc
    /\ rparts' = [rparts EXCEPT ![t] =
                    @ \o NonEmpty(<<RenderChapter(Head(rqueue[t])).text>>)]
    /\ rlogs' = [rlogs EXCEPT ![t] = @ + RenderChapter(Head(rqueue[t])).logs]
    /\ rqueue' = [rqueue EXCEPT ![t] = Tail(@)]
    /\ UNCHANGED <<selfDocument, selfMetadata, rarg, rret, rpc, lsink, notRnd>>

\* line 34 when _render_chapter raises
AppendChapterRaises(t) ==
    /\ rpc[t] = "L34"
    /\ rqueue[t] # <<>>
    /\ RenderChapter(Head(rqueue[t])).exc
    /\ Raise(t, RenderChapter(Head(rqueue[t])).logs)
    /\ UNCHANGED <<selfDocument, selfMetadata, rarg, rparts, rqueue, lsink, notRnd>>

\* line 38: return "\n".join(parts).strip()
Return(t) ==
    /\ rpc[t] = "L34"
    /\ rqueue[t] = <<>>
    /\ rret' = [rret EXCEPT ![t] = Ok(JoinParts(rparts[t]), rlogs[t])]
    /\ rpc' = [rpc EXCEPT ![t] = "done"]
    /\ UNCHANGED <<selfDocument, selfMetadata, rarg, rparts, rqueue, rlogs, lsink, notRnd>>

RndNext ==
    \E t \in Threads :
        \/ AssignDocument(t)
        \/ AssignMetadata(t)
        \/ AssignMetadataRaises(t)
        \/ AppendTitle(t)
        \/ AppendTitleRaises(t)
        \/ StartChapters(t)
        \/ StartChaptersRaises(t)
        \/ AppendChapter(t)
        \/ AppendChapterRaises(t)
        \/ Return(t)

SpecRender == RndInit /\ [][RndNext]_vars
SpecRenderShared == SharedInit /\ [][RndNext]_vars

\* -------------------------------------------------------- claims on render
\* a document that is a mapping whose metadata, when present, is a mapping
WellFormed(document_ir) ==
    document_ir.k = "dict" /\ Get(document_ir, "metadata").k \in {"none", "dict"}

\* C1: render never raises: for every input shape, malformed ones included (a
\* chapter that is a string, a heading level that is no number, a quadrant that
\* cannot be iterated), the call returns a string.
C1_RenderNeverRaises ==
    \A t \in Threads : (lsink = "ok" /\ WellFormed(rarg[t])) => rpc[t] # "raised"

\* the chapters of the document a call was given, in input order
ChaptersGiven(document_ir) ==
    IF document_ir.k = "dict" THEN Iter(ChaptersOf(document_ir)).items ELSE <<>>

\* the title line of the document a call was given
TitleLine(document_ir) ==
    LET metadata == IF document_ir.k = "dict"
                    THEN PyOr(GetOr(document_ir, "metadata", Dict), Dict) ELSE Dict
    IN <<"#", " ">>
       \o EscapeText(PyOr(PyOr(Get(metadata, "title"), Get(metadata, "query")),
                          PyStr(DefaultTitle)), FALSE)

\* the title line and the non-empty chapter renderings, a blank line between
\* every two of them, the whole stripped
BlankLineJoined(document_ir) ==
    LET chapters == ChaptersGiven(document_ir)
    IN Strip(Join(<<TitleLine(document_ir)>>
                  \o NonEmpty([i \in 1..Len(chapters) |-> RenderChapter(chapters[i]).text]),
                  <<"\n", "\n">>))

\* C4: in what render returns, the title line is followed by each chapter's
\* rendering in input order, every two consecutive non-empty renderings
\* separated by a blank line, and the result is stripped.
C4_ChaptersBlankLineJoined ==
    rpc[1] = "done" => rret[1].text = BlankLineJoined(rarg[1])

\* C5: two calls of render on one instance do not race: under every
\* interleaving of their statements, each call ends as a lone call on its own
\* document ends, with the same Markdown.
C5_CallsDoNotRace ==
    \A t \in Threads :
        (rpc[t] \in {"done", "raised"} /\ \A u \in Threads : WellFormed(rarg[u]))
            => /\ rret[t].exc = Render(rarg[t]).exc
               /\ rret[t].text = Render(rarg[t]).text

\* ------------------------------------------------- one chart widget as a table
\* the most labels and the most datasets of a chart in the inputs
MaxLabels == 2
MaxSeries == 2

\* label values and the label sequences of a chart
LabelInputs == {PyStr(<<"Q">>), PyInt(1)}
LabelsInputs ==
    {Absent, PyList(<<>>)}
    \cup UNION {{PyList(s) : s \in [1..n -> LabelInputs]} : n \in 1..MaxLabels}

\* a dataset {label, data}
Series(label, data) == With(With(Dict, "label", label), "data", data)
SeriesLabelInputs == {Absent, PyStr(<<"R">>), PyStr(<<"A", "|", "B">>), PyInt(7)}
SeriesDataInputs ==
    {Absent, PyList(<<PyInt(3)>>), PyList(<<PyStr(<<"a", "|", "b">>), None>>),
     PyList(<<With(Dict, "y", PyInt(4)), PyList(<<PyInt(1), PyInt(2)>>), PyInt(5)>>)}
SeriesInputs == {Series(l, d) : l \in SeriesLabelInputs, d \in SeriesDataInputs}
DatasetsInputs ==
    {Absent, PyList(<<>>)}
    \cup UNION {{PyList(s) : s \in [1..n -> SeriesInputs]} : n \in 1..MaxSeries}

\* ChartData, at the top of block['data'] or one level below
ChartData(labels, datasets) == With(With(Dict, "labels", labels), "datasets", datasets)
ChartWidget(data) ==
    With(With(With(Dict, "type", PyStr(<<"widget">>)),
              "widgetType", PyStr(<<"c", "h", "a", "r", "t", ".", "j", "s">>)),
         "data", data)
ChartInputs ==
    {ChartWidget(ChartData(l, d)) : l \in LabelsInputs, d \in DatasetsInputs}
    \cup {ChartWidget(With(Dict, key, ChartData(l, PyList(<<s>>)))) :
            key \in {"data", "chartData", "payload"},
            l \in LabelsInputs, s \in {Series(Absent, PyList(<<PyInt(3)>>))}}
    \cup {ChartWidget(Absent), ChartWidget(PyList(<<PyInt(1)>>))}

ChtInit ==
    /\ IdleExcept("cht")
    /\ cblock \in ChartInputs
    /\ cdata = None
    /\ cret = None
    /\ cpc = "L335"

\* line 335: data = self._coerce_chart_data(block.get("data") or {})
ChtCoerce ==
    /\ cpc = "L335"
    /\ cdata' = CoerceChartData(PyOr(Get(cblock, "data"), Dict))
    /\ cpc' = "L338"
    /\ UNCHANGED <<cblock, cret, notCht>>

\* lines 336-339: labels or datasets missing or empty
ChtMissing ==
    /\ cpc = "L338"
    /\ ~Truthy(Get(cdata, "labels")) \/ ~Truthy(Get(cdata, "datasets"))
    /\ cret' = RenderChartAsTable(cblock)
    /\ cpc' = "done"
    /\ UNCHANGED <<cblock, cdata, notCht>>

\* lines 341-353: the table is built and returned
ChtTable ==
    /\ cpc = "L338"
    /\ Truthy(Get(cdata, "labels")) /\ Truthy(Get(cdata, "datasets"))
    /\ ~RenderChartAsTable(cblock).exc
    /\ cret' = RenderChartAsTable(cblock)
    /\ cpc' = "done"
    /\ UNCHANGED <<cblock, cdata, notCht>>

\* lines 341-352: building the header or a row raises
ChtTableRaises ==
    /\ cpc = "L338"
    /\ Truthy(Get(cdata, "labels")) /\ Truthy(Get(cdata, "datasets"))
    /\ RenderChartAsTable(cblock).exc
    /\ cret' = RenderChartAsTable(cblock)
    /\ cpc' = "raised"
    /\ UNCHANGED <<cblock, cdata, notCht>>

ChtNext == ChtCoerce \/ ChtMissing \/ ChtTable \/ ChtTableRaises
SpecChart == ChtInit /\ [][ChtNext]_vars

\* ------------------------------------------------------ claims on the chart
\* the labels and datasets of the chart the call located
ChartLabels == Iter(Get(cdata, "labels")).items
ChartDatasets == Iter(Get(cdata, "datasets")).items
HasChartData == ChartLabels # <<>> /\ ChartDatasets # <<>>

\* the positions of the pipes of a table row that delimit cells: a pipe behind
\* a backslash is part of a cell
Delimiters(line) ==
    {i \in 1..Len(line) : line[i] = "|" /\ (i = 1 \/ line[i - 1] # "\\")}
CellCount(line) == Cardinality(Delimiters(line)) - 1
\* the text of cell n of a table row
CellText(line, n) ==
    LET starts == {i \in Delimiters(line) : Cardinality({j \in Delimiters(line) : j < i}) = n - 1}
        ends == {i \in Delimiters(line) : Cardinality({j \in Delimiters(line) : j < i}) = n}
    IN Strip(SubSeq(line, (CHOOSE i \in starts : TRUE) + 1, (CHOOSE i \in ends : TRUE) - 1))

\* a value as a chart cell shows it: stringified, in table-safe form
Stringified(value) == EscapeText(PyStr(StringifyValue(value)), TRUE)
\* what the claim puts in the cell of dataset ds in the row of label index i
SeriesValue(ds, i) ==
    LET series == Iter(Get(ds, "data")).items
    IN IF i <= Len(series) THEN Stringified(series[i]) ELSE <<>>

ChartRowsAsClaimed(lines) ==
    /\ Len(lines) = 2 + Len(ChartLabels)
    /\ \A j \in 1..Len(lines) : CellCount(lines[j]) = 1 + Len(ChartDatasets)
    /\ lines[2] = MarkdownSeparator(1 + Len(ChartDatasets))
    /\ \A i \in 1..Len(ChartLabels) :
         /\ CellText(lines[2 + i], 1) = Stringified(ChartLabels[i])
         /\ \A d \in 1..Len(ChartDatasets) :
              CellText(lines[2 + i], 1 + d) = SeriesValue(ChartDatasets[d], i)

ChartMissingNote == Ok(<<">", " ", "chart-data-missing">>, 0)

\* C11: a chart with non-empty labels and non-empty datasets comes out as a
\* header row, a separator row and one row per label in label order, every row
\* of 1 + (number of datasets) cells, the cell of dataset d in the row of label
\* i holding the stringified d.data[i], or nothing when d.data is shorter; with
\* labels or datasets missing or empty the output is the chart-data-missing
\* blockquote and no table.
C11_ChartDegradation ==
    cpc \in {"done", "raised"} =>
        IF HasChartData
        THEN ~cret.exc /\ ChartRowsAsClaimed(SplitLines(cret.text))
        ELSE cret = ChartMissingNote

\* ------------------------------------------- claims on the diagnostic sink
\* the blocks that sit directly under a block of the tree: the blocks of the
\* items of a list, of the cells of the rows of a table, and of a quote, a
\* callout or a generic container
BlocksUnder(block) ==
    LET seqOf(v) == IF v.k = "list" THEN v.items ELSE <<>>
        under(v, key) == IF v.k = "dict" THEN seqOf(Get(v, key)) ELSE <<>>
        items == under(block, "items")
        rows == under(block, "rows")
        cells(row) == under(row, "cells")
    IN IF Get(block, "type") = TypeStr("list")
       THEN Flatten([i \in 1..Len(items) |-> seqOf(items[i])])
       ELSE IF Get(block, "type") = TypeStr("table")
       THEN Flatten([r \in 1..Len(rows) |->
                Flatten([c \in 1..Len(cells(rows[r])) |-> under(cells(rows[r])[c], "blocks")])])
       ELSE under(block, "blocks")

RECURSIVE UnrecognizedIn(_)
RECURSIVE UnrecognizedAmong(_)
\* the number of unrecognized blocks in the tree below and including block
UnrecognizedIn(block) ==
    IF block.k # "dict" THEN 0
    ELSE (IF UnknownLeafKind(block) THEN 1 ELSE 0) + UnrecognizedAmong(BlocksUnder(block))
UnrecognizedAmong(blocks) ==
    IF blocks = <<>> THEN 0 ELSE UnrecognizedIn(Head(blocks)) + UnrecognizedAmong(Tail(blocks))

\* the number of unrecognized blocks of a document, over all its chapters
UnrecognizedOf(document_ir) ==
    LET chapters == ChaptersGiven(document_ir)
    IN UnrecognizedAmong(Flatten([i \in 1..Len(chapters) |->
            IF chapters[i].k = "dict" /\ Get(chapters[i], "blocks").k = "list"
            THEN Get(chapters[i], "blocks").items ELSE <<>>]))

\* C12: when a render call has returned, the diagnostic sink has been called
\* exactly once for each unrecognized block of the document, wherever the block
\* sits (top level of a chapter, in a container, a list item, a quote or a table
\* cell), and never for a recognized block.
C12_OneLogPerUnrecognized ==
    rpc[1] = "done" => rlogs[1] = UnrecognizedOf(rarg[1])

\* ------------------------------------- calls of render one after another
\* the documents the calls in a row are given, well formed and not
SeqInputs ==
    {DocT, DocQ, Dict, None, PyStr(<<"d">>), Document(PyStr(<<"m">>), Absent),
     Document(MetaT, PyInt(3)), Document(Absent, PyList(<<ChBadLevel, ChA>>))}

\* Call 1 stands for the earlier calls on the instance, one after the other;
\* call 2 is a call made after them.
SeqInit ==
    /\ selfDocument = Dict
    /\ selfMetadata = Dict
    /\ rarg \in [Threads -> SeqInputs]
    /\ rparts = [t \in Threads |-> <<>>]
    /\ rqueue = [t \in Threads |-> <<>>]
    /\ rlogs = [t \in Threads |-> 0]
    /\ rret = [t \in Threads |-> None]
    /\ rpc = [t \in Threads |-> IF t = 1 THEN "L24" ELSE "idle"]
    /\ lsink \in {"ok", "raises"}
    /\ IdleExcept("rnd")

\* line 22: the earlier call is over and render is called again on the instance
\* with another document; parts and the loop are local to the new call
CallAgain ==
    /\ rpc[1] \in {"done", "raised"}
    /\ rpc[2] = "idle"
    /\ \E d \in SeqInputs : rarg' = [rarg EXCEPT ![1] = d]
    /\ rparts' = [rparts EXCEPT ![1] = <<>>]
    /\ rqueue' = [rqueue EXCEPT ![1] = <<>>]
    /\ rlogs' = [rlogs EXCEPT ![1] = 0]
    /\ rret' = [rret EXCEPT ![1] = None]
    /\ rpc' = [rpc EXCEPT ![1] = "L24"]
    /\ UNCHANGED <<selfDocument, selfMetadata, lsink, notRnd>>

\* line 22: the earlier calls are over and call 2 is made
CallLast ==
    /\ rpc[1] \in {"done", "raised"}
    /\ rpc[2] = "idle"
    /\ rpc' = [rpc EXCEPT ![2] = "L24"]
    /\ UNCHANGED <<selfDocument, selfMetadata, rarg, rparts, rqueue, rlogs, rret, lsink, notRnd>>

SeqNext == RndNext \/ CallAgain \/ CallLast
SpecRenderSeq == SeqInit /\ [][SeqNext]_vars

\* C13: in sequential use the instance keeps no memory across calls: whatever
\* calls of render came before on the same instance, a call that has ended
\* ended as render on a freshly constructed instance ends on its document,
\* with the same string.
C13_NoCrossCallMemory ==
    \A t \in Threads :
        rpc[t] \in {"done", "raised"}
            => /\ rret[t].exc = Render(rarg[t]).exc
               /\ rret[t].text = Render(rarg[t]).text

\* after a call on the two-chapter document Q ended, and with the fields still
\* holding what an earlier call left, a call on document T returned "# T" and
\* its one chapter
C13_Witness ==
    /\ rpc[1] = "done" /\ rarg[1] = DocQ
    /\ rpc[2] = "done" /\ rarg[2] = DocT
    /\ rret[2].text = <<"#", " ", "T", "\n", "\n", "#", "#", " ", "A">>

====
